---- MODULE Spec2Model ----
(***************************************************************************)
(* A model of the foolang compiler (src/src/foolang): the Lexer, the       *)
(* recursive-descent Parser, the Optimizer (ConstantFolder and             *)
(* DeadCodeEliminator), the CodeGenerator and the CLI driver that chains   *)
(* them.                                                                   *)
(*                                                                         *)
(* Text is modelled as a sequence of one-character strings.  A Python      *)
(* exception is modelled as a result record that names the exception       *)
(* class; every caller propagates it unless the code catches it.           *)
(***************************************************************************)
EXTENDS Integers, Sequences, FiniteSets, TLC

VARIABLES
    entry,        \* which entry point the caller invoked
    args,         \* compile_command's arguments (cli.py:56)
    pc,           \* position of the caller / of compile_source
    source,       \* Lexer.source
    pos,          \* Lexer.pos (0-based, as in the code)
    line,         \* Lexer.line
    column,       \* Lexer.column
    lexTokens,    \* the local list `tokens` of Lexer.tokenize
    tokens,       \* what tokenize returned (compile_source's `tokens`)
    ast,          \* the Program handed from stage to stage
    input,        \* the Program the caller passed to optimize
    passes,       \* Optimizer.passes
    passIdx,      \* the loop position of Optimizer.optimize
    usages,       \* DeadCodeEliminator.usages
    in_collection_phase, \* DeadCodeEliminator.in_collection_phase
    indent_level, \* CodeGenerator.indent_level
    js_code,      \* the text generate returned
    parserPos,    \* Parser.pos
    parseStatements, \* the local list `statements` of Parser.parse
    stderr,       \* what compile_command printed to standard error
    error,        \* the exception that ended the run, if any
    trace,        \* the stages that ran, in order
    outFile,      \* what compile_command wrote to the output file
    stdout,       \* what compile_command printed to standard output
    exitStatus    \* compile_command's return value

vars == <<entry, args, pc, source, pos, line, column, lexTokens, tokens, ast,
          input, passes, passIdx, usages, in_collection_phase, indent_level,
          js_code, parserPos, parseStatements, stderr, error, trace, outFile,
          stdout, exitStatus>>

(***************************************************************************)
(* Bounds of the model.                                                    *)
(***************************************************************************)
\* longest source text drawn character by character
MaxSrcLen == 4
\* longest source text drawn word by word
MaxWords == 3
\* the largest finite magnitude of the modelled double; stands for DBL_MAX
FloatMax == 120
\* digits printed after the decimal point of a non-integer
FracDigits == 3
\* the number literals 0..MaxNum are operands of the generated expressions
MaxNum == 2
\* longest statement list of a generated program
MaxStmts == 2
\* longest string literal of a generated program
MaxStrLen == 3
\* most calls made on one Optimizer or CodeGenerator instance
MaxCalls == 2
\* most binary operators of a generated operator chain
MaxOps == 3
\* most argument lists after one primary expression
MaxChain == 3
\* deepest nesting of the generated block statements
MaxDepth == 3

(***************************************************************************)
(* Characters                                                              *)
(***************************************************************************)
Digits == {"0", "1", "2", "3", "4", "5", "6", "7", "8", "9"}

Letters ==
    {"a", "b", "c", "d", "e", "f", "g", "h", "i", "j", "k", "l", "m", "n",
     "o", "p", "q", "r", "s", "t", "u", "v", "w", "x", "y", "z"}

IsDigit(c) == c \in Digits

IsAlpha(c) == c \in Letters

IsAlnum(c) == IsDigit(c) \/ IsAlpha(c)

None == [kind |-> "None"]

NoError == [kind |-> "None"]

(***************************************************************************)
(* Lexer (lexer.py)                                                        *)
(***************************************************************************)
TokenType ==
    {"NUMBER", "STRING", "IDENT", "LET", "FN", "RETURN", "IF", "ELSE", "TRUE",
     "FALSE", "PLUS", "MINUS", "STAR", "SLASH", "EQ", "EQEQ", "NEQ", "LT",
     "GT", "LTEQ", "GTEQ", "LPAREN", "RPAREN", "LBRACE", "RBRACE", "COMMA",
     "EOF"}

KEYWORDS ==
    {<<<<"l", "e", "t">>, "LET">>,
     <<<<"f", "n">>, "FN">>,
     <<<<"r", "e", "t", "u", "r", "n">>, "RETURN">>,
     <<<<"i", "f">>, "IF">>,
     <<<<"e", "l", "s", "e">>, "ELSE">>,
     <<<<"t", "r", "u", "e">>, "TRUE">>,
     <<<<"f", "a", "l", "s", "e">>, "FALSE">>}

\* KEYWORDS.get(value, TokenType.IDENT)
KeywordType(value) ==
    IF \E k \in KEYWORDS : k[1] = value
    THEN (CHOOSE k \in KEYWORDS : k[1] = value)[2]
    ELSE "IDENT"

Token(type, value, l, c) ==
    [type |-> type, value |-> value, line |-> l, column |-> c]

LexerError(message, l, c) ==
    [kind |-> "LexerError", message |-> message, line |-> l, column |-> c]

\* the scanning position: Lexer.pos, Lexer.line, Lexer.column
Cursor(p, l, c) == [pos |-> p, line |-> l, column |-> c]

IsAtEnd(src, cur) == cur.pos >= Len(src)

Peek(src, cur) == IF IsAtEnd(src, cur) THEN "NUL" ELSE src[cur.pos + 1]

PeekNext(src, cur) ==
    IF cur.pos + 1 >= Len(src) THEN "NUL" ELSE src[cur.pos + 2]

\* an _advance that goes to the next line without resetting the column
AdvanceKeepsColumn(src, cur) ==
    IF src[cur.pos + 1] = "\n"
    THEN Cursor(cur.pos + 1, cur.line + 1, cur.column + 1)
    ELSE Cursor(cur.pos + 1, cur.line, cur.column + 1)

Advance(src, cur) ==
    IF src[cur.pos + 1] = "\n"
    THEN Cursor(cur.pos + 1, cur.line + 1, 1)
    ELSE Cursor(cur.pos + 1, cur.line, cur.column + 1)

\* the cursor after _match(expected); it moved iff the match succeeded
Match(src, cur, expected) ==
    IF IsAtEnd(src, cur) \/ Peek(src, cur) # expected
    THEN cur
    ELSE Advance(src, cur)

RECURSIVE SkipLine(_, _)
SkipLine(src, cur) ==
    IF ~IsAtEnd(src, cur) /\ Peek(src, cur) # "\n"
    THEN SkipLine(src, Advance(src, cur))
    ELSE cur

RECURSIVE SkipWhitespaceAndComments(_, _)
SkipWhitespaceAndComments(src, cur) ==
    IF IsAtEnd(src, cur) THEN cur
    ELSE LET char == Peek(src, cur) IN
         IF char \in {" ", "\t", "\r"}
         THEN SkipWhitespaceAndComments(src, Advance(src, cur))
         ELSE IF char = "\n"
         THEN SkipWhitespaceAndComments(src, Advance(src, cur))
         ELSE IF char = "/" /\ PeekNext(src, cur) = "/"
         THEN SkipWhitespaceAndComments(src, SkipLine(src, cur))
         ELSE cur

LexToken(tok, cur) == [kind |-> "token", token |-> tok, cur |-> cur]

LexNone(cur) == [kind |-> "none", cur |-> cur]

LexRaise(err, cur) == [kind |-> "raise", error |-> err, cur |-> cur]

RECURSIVE ScanString(_, _, _, _, _)

\* a _string that reports an unterminated string where the string breaks off
ScanStringErrorAtBreak(src, cur, value, start_line, start_column) ==
    IF ~IsAtEnd(src, cur) /\ Peek(src, cur) # "\""
    THEN IF Peek(src, cur) = "\n"
         THEN LexRaise(LexerError(<<"Unterminated string">>, cur.line,
                                  cur.column), cur)
         ELSE ScanString(src, Advance(src, cur),
                         Append(value, Peek(src, cur)), start_line,
                         start_column)
    ELSE IF IsAtEnd(src, cur)
    THEN LexRaise(LexerError(<<"Unterminated string">>, cur.line,
                             cur.column), cur)
    ELSE LexToken(Token("STRING", value, start_line, start_column),
                  Advance(src, cur))

\* a _string that takes a backslash and the character after it together,
\* so that an escaped quote does not end the string
ScanStringWithEscapes(src, cur, value, start_line, start_column) ==
    IF ~IsAtEnd(src, cur) /\ Peek(src, cur) # "\""
    THEN IF Peek(src, cur) = "\n"
         THEN LexRaise(LexerError(<<"Unterminated string">>, start_line,
                                  start_column), cur)
         ELSE IF Peek(src, cur) = "\\" /\ PeekNext(src, cur) = "\""
         THEN ScanString(src, Advance(src, Advance(src, cur)),
                         value \o <<"\\", "\"">>, start_line, start_column)
         ELSE ScanString(src, Advance(src, cur),
                         Append(value, Peek(src, cur)), start_line,
                         start_column)
    ELSE IF IsAtEnd(src, cur)
    THEN LexRaise(LexerError(<<"Unterminated string">>, start_line,
                             start_column), cur)
    ELSE LexToken(Token("STRING", value, start_line, start_column),
                  Advance(src, cur))

ScanString(src, cur, value, start_line, start_column) ==
    IF ~IsAtEnd(src, cur) /\ Peek(src, cur) # "\""
    THEN IF Peek(src, cur) = "\n"
         THEN LexRaise(LexerError(<<"Unterminated string">>, start_line,
                                  start_column), cur)
         ELSE ScanString(src, Advance(src, cur),
                         Append(value, Peek(src, cur)), start_line,
                         start_column)
    ELSE IF IsAtEnd(src, cur)
    THEN LexRaise(LexerError(<<"Unterminated string">>, start_line,
                             start_column), cur)
    ELSE LexToken(Token("STRING", value, start_line, start_column),
                  Advance(src, cur))

RECURSIVE ScanNumber(_, _, _, _, _)

\* a _number that takes one decimal point only
ScanNumberOneDot(src, cur, value, start_line, start_column) ==
    IF /\ ~IsAtEnd(src, cur)
       /\ \/ IsDigit(Peek(src, cur))
          \/ Peek(src, cur) = "." /\ \A i \in DOMAIN value : value[i] # "."
    THEN ScanNumber(src, Advance(src, cur), Append(value, Peek(src, cur)),
                    start_line, start_column)
    ELSE LexToken(Token("NUMBER", value, start_line, start_column), cur)

ScanNumber(src, cur, value, start_line, start_column) ==
    IF ~IsAtEnd(src, cur) /\ (IsDigit(Peek(src, cur)) \/ Peek(src, cur) = ".")
    THEN ScanNumber(src, Advance(src, cur), Append(value, Peek(src, cur)),
                    start_line, start_column)
    ELSE LexToken(Token("NUMBER", value, start_line, start_column), cur)

RECURSIVE ScanIdentifier(_, _, _, _, _)
ScanIdentifier(src, cur, value, start_line, start_column) ==
    IF ~IsAtEnd(src, cur) /\ (IsAlnum(Peek(src, cur)) \/ Peek(src, cur) = "_")
    THEN ScanIdentifier(src, Advance(src, cur), Append(value, Peek(src, cur)),
                        start_line, start_column)
    ELSE LexToken(Token(KeywordType(value), value, start_line, start_column),
                  cur)

single_char_tokens ==
    [c \in {"(", ")", "{", "}", ",", "+", "-", "*", "/"} |->
        CASE c = "(" -> "LPAREN"
          [] c = ")" -> "RPAREN"
          [] c = "{" -> "LBRACE"
          [] c = "}" -> "RBRACE"
          [] c = "," -> "COMMA"
          [] c = "+" -> "PLUS"
          [] c = "-" -> "MINUS"
          [] c = "*" -> "STAR"
          [] c = "/" -> "SLASH"]

\* a one- or two-character operator, given the cursor after _match("=")
TwoCharTokenWith(cur, after, char, one, two, sl, sc) ==
    IF after # cur
    THEN LexToken(Token(two, <<char, "=">>, sl, sc), after)
    ELSE IF one = "NONE"
    THEN LexRaise(LexerError(<<"Unexpected character: ", char>>, sl, sc), cur)
    ELSE LexToken(Token(one, <<char>>, sl, sc), cur)

\* a one- or two-character operator: `one` alone, or `two` when "=" follows
TwoCharToken(src, cur, char, one, two, sl, sc) ==
    TwoCharTokenWith(cur, Match(src, cur, "="), char, one, two, sl, sc)

\* _next_token after the first character `char` was read with _advance
ScanToken(src, char, cur, start_line, start_column) ==
    IF char \in DOMAIN single_char_tokens
    THEN LexToken(Token(single_char_tokens[char], <<char>>, start_line,
                        start_column), cur)
    ELSE IF char = "="
    THEN TwoCharToken(src, cur, char, "EQ", "EQEQ", start_line, start_column)
    ELSE IF char = "!"
    THEN TwoCharToken(src, cur, char, "NONE", "NEQ", start_line,
                      start_column)
    ELSE IF char = "<"
    THEN TwoCharToken(src, cur, char, "LT", "LTEQ", start_line, start_column)
    ELSE IF char = ">"
    THEN TwoCharToken(src, cur, char, "GT", "GTEQ", start_line, start_column)
    ELSE IF char = "\""
    THEN ScanString(src, cur, <<>>, start_line, start_column)
    ELSE IF IsDigit(char)
    THEN ScanNumber(src, cur, <<char>>, start_line, start_column)
    ELSE IF IsAlpha(char) \/ char = "_"
    THEN ScanIdentifier(src, cur, <<char>>, start_line, start_column)
    ELSE LexRaise(LexerError(<<"Unexpected character: ", char>>, start_line,
                             start_column), cur)

\* a lexer that emits an end-of-input token itself when only blanks are left
NextTokenAtEof(src, skipped) ==
    IF IsAtEnd(src, skipped)
    THEN LexToken(Token("EOF", <<>>, skipped.line, skipped.column), skipped)
    ELSE ScanToken(src, Peek(src, skipped), Advance(src, skipped),
                   skipped.line, skipped.column)

\* _next_token after _skip_whitespace_and_comments
NextTokenAt(src, skipped) ==
    IF IsAtEnd(src, skipped) THEN LexNone(skipped)
    ELSE ScanToken(src, Peek(src, skipped), Advance(src, skipped),
                   skipped.line, skipped.column)

\* _next_token
NextToken(src, cur) == NextTokenAt(src, SkipWhitespaceAndComments(src, cur))

(***************************************************************************)
(* Numbers.  A NumberLiteral holds a Python float.  The model keeps a      *)
(* finite value exactly, as the reduced fraction n/d with d > 0, and keeps *)
(* the three special values with d = 0: n = 1 is inf, n = -1 is -inf and   *)
(* n = 0 is nan.  A result whose magnitude exceeds FloatMax is an          *)
(* infinity, as a result beyond the largest double is.  Rounding and       *)
(* underflow are not modelled.                                             *)
(***************************************************************************)
Abs(i) == IF i < 0 THEN -i ELSE i

Sign(i) == IF i < 0 THEN -1 ELSE IF i > 0 THEN 1 ELSE 0

RECURSIVE GCD(_, _)
GCD(a, b) == IF b = 0 THEN a ELSE GCD(b, a % b)

Inf(sign) == [n |-> sign, d |-> 0]

NaN == [n |-> 0, d |-> 0]

FNorm(n, d) ==
    IF d = 0 THEN [n |-> Sign(n), d |-> 0]
    ELSE IF Abs(n) > FloatMax * d THEN Inf(Sign(n))
    ELSE LET g == GCD(Abs(n), d) IN [n |-> n \div g, d |-> d \div g]

FInt(i) == FNorm(i, 1)

IsNaN(x) == x.d = 0 /\ x.n = 0

IsInf(x) == x.d = 0 /\ x.n # 0

IsFinite(x) == x.d # 0

FNeg(a) == [n |-> -a.n, d |-> a.d]

FAdd(a, b) ==
    IF IsNaN(a) \/ IsNaN(b) THEN NaN
    ELSE IF IsInf(a) /\ IsInf(b) THEN (IF a.n = b.n THEN a ELSE NaN)
    ELSE IF IsInf(a) THEN a
    ELSE IF IsInf(b) THEN b
    ELSE FNorm(a.n * b.d + b.n * a.d, a.d * b.d)

FSub(a, b) == FAdd(a, FNeg(b))

FMul(a, b) ==
    IF IsNaN(a) \/ IsNaN(b) THEN NaN
    ELSE IF IsInf(a) \/ IsInf(b)
    THEN (IF a.n = 0 \/ b.n = 0 THEN NaN ELSE Inf(Sign(a.n) * Sign(b.n)))
    ELSE FNorm(a.n * b.n, a.d * b.d)

\* a / b for b # 0
FDiv(a, b) ==
    IF IsNaN(a) \/ IsNaN(b) THEN NaN
    ELSE IF IsInf(a) /\ IsInf(b) THEN NaN
    ELSE IF IsInf(a) THEN Inf(a.n * Sign(b.n))
    ELSE IF IsInf(b) THEN FInt(0)
    ELSE FNorm(a.n * b.d * Sign(b.n), a.d * Abs(b.n))

FRank(a) == IF IsFinite(a) THEN 0 ELSE a.n

FLt(a, b) ==
    /\ ~IsNaN(a)
    /\ ~IsNaN(b)
    /\ IF IsFinite(a) /\ IsFinite(b)
       THEN a.n * b.d < b.n * a.d
       ELSE FRank(a) < FRank(b)

FEq(a, b) == ~IsNaN(a) /\ ~IsNaN(b) /\ a = b

FLe(a, b) == FLt(a, b) \/ FEq(a, b)

Raise(name) == [kind |-> "raise", error |-> [kind |-> name]]

Value(v) == [kind |-> "value", value |-> v]

\* Python's left / right on floats
PyTrueDiv(left, right) ==
    IF FEq(right, FInt(0)) THEN Raise("ZeroDivisionError")
    ELSE Value(FDiv(left, right))

\* Python's int(x) on a float
PyInt(x) ==
    IF IsInf(x) THEN Raise("OverflowError")
    ELSE IF IsNaN(x) THEN Raise("ValueError")
    ELSE Value(Sign(x.n) * (Abs(x.n) \div x.d))

DigitValue(c) ==
    CASE c = "0" -> 0 [] c = "1" -> 1 [] c = "2" -> 2 [] c = "3" -> 3
      [] c = "4" -> 4 [] c = "5" -> 5 [] c = "6" -> 6 [] c = "7" -> 7
      [] c = "8" -> 8 [] c = "9" -> 9

NumDots(text) == Cardinality({i \in DOMAIN text : text[i] = "."})

\* the value of a run of digits and at most one dot, read left to right;
\* scale is 0 before the dot and the power of ten of the last digit after
RECURSIVE DecimalValue(_, _, _, _)
DecimalValue(text, i, acc, scale) ==
    IF i > Len(text) THEN acc
    ELSE IF text[i] = "." THEN DecimalValue(text, i + 1, acc, 1)
    ELSE IF IsInf(acc) THEN acc
    ELSE IF scale = 0
    THEN DecimalValue(text, i + 1,
                      FAdd(FMul(acc, FInt(10)), FInt(DigitValue(text[i]))), 0)
    ELSE DecimalValue(text, i + 1,
                      FAdd(acc, FNorm(DigitValue(text[i]), scale * 10)),
                      scale * 10)

\* Python's float(text) on the text of a NUMBER token
PyFloat(text) ==
    IF NumDots(text) > 1 THEN Raise("ValueError")
    ELSE Value(DecimalValue(text, 1, FInt(0), 0))

(***************************************************************************)
(* AST nodes (ast.py).  A text field (a name, an operator, a string value) *)
(* is a sequence of characters.                                            *)
(***************************************************************************)
NumberLiteral(value) == [kind |-> "NumberLiteral", value |-> value]

StringLiteral(value) == [kind |-> "StringLiteral", value |-> value]

BoolLiteral(value) == [kind |-> "BoolLiteral", value |-> value]

Identifier(name) == [kind |-> "Identifier", name |-> name]

BinaryOp(left, operator, right) ==
    [kind |-> "BinaryOp", left |-> left, operator |-> operator,
     right |-> right]

UnaryOp(operator, operand) ==
    [kind |-> "UnaryOp", operator |-> operator, operand |-> operand]

CallExpression(callee, arguments) ==
    [kind |-> "CallExpression", callee |-> callee, arguments |-> arguments]

LetStatement(name, value) ==
    [kind |-> "LetStatement", name |-> name, value |-> value]

ReturnStatement(value) == [kind |-> "ReturnStatement", value |-> value]

ExpressionStatement(expression) ==
    [kind |-> "ExpressionStatement", expression |-> expression]

Block(statements) == [kind |-> "Block", statements |-> statements]

IfStatement(condition, then_branch, else_branch) ==
    [kind |-> "IfStatement", condition |-> condition,
     then_branch |-> then_branch, else_branch |-> else_branch]

FnDeclaration(name, params, body) ==
    [kind |-> "FnDeclaration", name |-> name, params |-> params,
     body |-> body]

Program(statements) == [kind |-> "Program", statements |-> statements]

(***************************************************************************)
(* Parser (parser.py).  Every parsing method takes the token list and the  *)
(* cursor Parser.pos and returns the node it built with the new cursor, or *)
(* the exception it raised with the cursor at that moment.                 *)
(***************************************************************************)
ParseError(message, token) ==
    [kind |-> "ParseError", message |-> message, token |-> token]

POk(node, p) == [ok |-> TRUE, node |-> node, pos |-> p]

PRaise(err, p) == [ok |-> FALSE, error |-> err, pos |-> p]

PPeek(toks, p) == toks[p + 1]

PPrevious(toks, p) == toks[p]

PIsAtEnd(toks, p) == PPeek(toks, p).type = "EOF"

PCheck(toks, p, type) ==
    IF PIsAtEnd(toks, p) THEN FALSE ELSE PPeek(toks, p).type = type

PAdvance(toks, p) == IF ~PIsAtEnd(toks, p) THEN p + 1 ELSE p

\* _match(*types): whether one of the types is next; the caller advances
PMatch(toks, p, types) == \E t \in types : PCheck(toks, p, t)

\* _consume: the consumed token as node, or ParseError at the token seen
PConsume(toks, p, type, message) ==
    IF PCheck(toks, p, type)
    THEN POk(PPeek(toks, p), PAdvance(toks, p))
    ELSE PRaise(ParseError(message, PPeek(toks, p)), p)

\* an exception raised by a called method propagates; otherwise go on
PThen(r, K(_)) == IF ~r.ok THEN r ELSE K(r)

RECURSIVE ParseDeclaration(_, _), ParseFnDeclaration(_, _), ParseParams(_, _, _),
          ParseLetStatement(_, _), ParseStatement(_, _),
          ParseReturnStatement(_, _), ParseIfStatement(_, _),
          ParseBlock(_, _, _), ParseExpressionStatement(_, _),
          ParseExpression(_, _), ParseEquality(_, _),
          ParseEqualityLoop(_, _, _), ParseComparison(_, _),
          ParseComparisonLoop(_, _, _), ParseTerm(_, _),
          ParseTermLoop(_, _, _), ParseFactor(_, _),
          ParseFactorLoop(_, _, _), ParseUnary(_, _), ParseCall(_, _),
          ParseCallLoop(_, _, _), ParseFinishCall(_, _, _),
          ParseArguments(_, _, _), ParsePrimary(_, _)

\* NumberLiteral(float(self._previous().value))
NumberFromText(f, p) ==
    IF f.kind = "raise" THEN PRaise(f.error, p)
    ELSE POk(NumberLiteral(f.value), p)

ParsePrimary(toks, p) ==
    IF PMatch(toks, p, {"TRUE"}) THEN POk(BoolLiteral(TRUE), p + 1)
    ELSE IF PMatch(toks, p, {"FALSE"}) THEN POk(BoolLiteral(FALSE), p + 1)
    ELSE IF PMatch(toks, p, {"NUMBER"})
    THEN NumberFromText(PyFloat(PPeek(toks, p).value), p + 1)
    ELSE IF PMatch(toks, p, {"STRING"})
    THEN POk(StringLiteral(PPeek(toks, p).value), p + 1)
    ELSE IF PMatch(toks, p, {"IDENT"})
    THEN POk(Identifier(PPeek(toks, p).value), p + 1)
    ELSE IF PMatch(toks, p, {"LPAREN"})
    THEN PThen(ParseExpression(toks, p + 1), LAMBDA expr :
         PThen(PConsume(toks, expr.pos, "RPAREN",
                        "Expected ')' after expression"), LAMBDA close :
         POk(expr.node, close.pos)))
    ELSE PRaise(ParseError("Expected expression", PPeek(toks, p)), p)

\* the `while self._match(COMMA)` loop of _finish_call
ParseArguments(toks, arguments, p) ==
    IF PMatch(toks, p, {"COMMA"})
    THEN PThen(ParseExpression(toks, p + 1), LAMBDA arg :
         ParseArguments(toks, Append(arguments, arg.node), arg.pos))
    ELSE POk(arguments, p)

ParseFinishCall(toks, callee, p) ==
    PThen(IF ~PCheck(toks, p, "RPAREN")
          THEN PThen(ParseExpression(toks, p), LAMBDA first :
               ParseArguments(toks, <<first.node>>, first.pos))
          ELSE POk(<<>>, p), LAMBDA arguments :
    PThen(PConsume(toks, arguments.pos, "RPAREN",
                   "Expected ')' after arguments"), LAMBDA close :
    POk(CallExpression(callee, arguments.node), close.pos)))

RECURSIVE ParseCallLoopFlat(_, _, _)
\* a loop that hands every argument list to the primary expression
ParseCallLoopFlat(toks, expr, p) ==
    IF PMatch(toks, p, {"LPAREN"})
    THEN PThen(ParseFinishCall(toks, expr, p + 1), LAMBDA call :
         IF PCheck(toks, call.pos, "LPAREN")
         THEN ParseCallLoopFlat(toks, expr, call.pos)
         ELSE POk(call.node, call.pos))
    ELSE POk(expr, p)

\* the `while self._match(LPAREN)` loop of _call
ParseCallLoop(toks, expr, p) ==
    IF PMatch(toks, p, {"LPAREN"})
    THEN PThen(ParseFinishCall(toks, expr, p + 1), LAMBDA call :
         ParseCallLoop(toks, call.node, call.pos))
    ELSE POk(expr, p)

ParseCall(toks, p) ==
    PThen(ParsePrimary(toks, p), LAMBDA expr :
    ParseCallLoop(toks, expr.node, expr.pos))

ParseUnary(toks, p) ==
    IF PMatch(toks, p, {"MINUS"})
    THEN PThen(ParseUnary(toks, p + 1), LAMBDA operand :
         POk(UnaryOp(PPrevious(toks, p + 1).value, operand.node),
             operand.pos))
    ELSE ParseCall(toks, p)

ParseFactorLoop(toks, expr, p) ==
    IF PMatch(toks, p, {"STAR", "SLASH"})
    THEN PThen(ParseUnary(toks, p + 1), LAMBDA right :
         ParseFactorLoop(toks,
                         BinaryOp(expr, PPrevious(toks, p + 1).value,
                                  right.node),
                         right.pos))
    ELSE POk(expr, p)

ParseFactor(toks, p) ==
    PThen(ParseUnary(toks, p), LAMBDA expr :
    ParseFactorLoop(toks, expr.node, expr.pos))

\* a _term loop that groups `a - b - c` to the right
ParseTermLoopRightAssoc(toks, expr, p) ==
    IF PMatch(toks, p, {"PLUS", "MINUS"})
    THEN PThen(ParseTerm(toks, p + 1), LAMBDA right :
         POk(BinaryOp(expr, PPrevious(toks, p + 1).value, right.node),
             right.pos))
    ELSE POk(expr, p)

ParseTermLoop(toks, expr, p) ==
    IF PMatch(toks, p, {"PLUS", "MINUS"})
    THEN PThen(ParseFactor(toks, p + 1), LAMBDA right :
         ParseTermLoop(toks,
                       BinaryOp(expr, PPrevious(toks, p + 1).value,
                                right.node),
                       right.pos))
    ELSE POk(expr, p)

ParseTerm(toks, p) ==
    PThen(ParseFactor(toks, p), LAMBDA expr :
    ParseTermLoop(toks, expr.node, expr.pos))

ParseComparisonLoop(toks, expr, p) ==
    IF PMatch(toks, p, {"LT", "GT", "LTEQ", "GTEQ"})
    THEN PThen(ParseTerm(toks, p + 1), LAMBDA right :
         ParseComparisonLoop(toks,
                             BinaryOp(expr, PPrevious(toks, p + 1).value,
                                      right.node),
                             right.pos))
    ELSE POk(expr, p)

ParseComparison(toks, p) ==
    PThen(ParseTerm(toks, p), LAMBDA expr :
    ParseComparisonLoop(toks, expr.node, expr.pos))

ParseEqualityLoop(toks, expr, p) ==
    IF PMatch(toks, p, {"EQEQ", "NEQ"})
    THEN PThen(ParseComparison(toks, p + 1), LAMBDA right :
         ParseEqualityLoop(toks,
                           BinaryOp(expr, PPrevious(toks, p + 1).value,
                                    right.node),
                           right.pos))
    ELSE POk(expr, p)

ParseEquality(toks, p) ==
    PThen(ParseComparison(toks, p), LAMBDA expr :
    ParseEqualityLoop(toks, expr.node, expr.pos))

ParseExpression(toks, p) == ParseEquality(toks, p)

ParseExpressionStatement(toks, p) ==
    PThen(ParseExpression(toks, p), LAMBDA expr :
    POk(ExpressionStatement(expr.node), expr.pos))

\* the statement loop of _block, then the closing brace
ParseBlock(toks, statements, p) ==
    IF ~PCheck(toks, p, "RBRACE") /\ ~PIsAtEnd(toks, p)
    THEN PThen(ParseDeclaration(toks, p), LAMBDA stmt :
         ParseBlock(toks, Append(statements, stmt.node), stmt.pos))
    ELSE PThen(PConsume(toks, p, "RBRACE", "Expected '}' after block"),
               LAMBDA close : POk(Block(statements), close.pos))

\* the optional else of _if_statement
ParseElse(toks, condition, then_branch) ==
    IF PMatch(toks, then_branch.pos, {"ELSE"})
    THEN PThen(PConsume(toks, then_branch.pos + 1, "LBRACE",
                        "Expected '{' after 'else'"), LAMBDA brace :
         PThen(ParseBlock(toks, <<>>, brace.pos), LAMBDA else_branch :
         POk(IfStatement(condition.node, then_branch.node, else_branch.node),
             else_branch.pos)))
    ELSE POk(IfStatement(condition.node, then_branch.node, None),
             then_branch.pos)

ParseIfStatement(toks, p) ==
    PThen(PConsume(toks, p, "LPAREN", "Expected '(' after 'if'"),
          LAMBDA open :
    PThen(ParseExpression(toks, open.pos), LAMBDA condition :
    PThen(PConsume(toks, condition.pos, "RPAREN",
                   "Expected ')' after condition"), LAMBDA close :
    PThen(PConsume(toks, close.pos, "LBRACE",
                   "Expected '{' after if condition"), LAMBDA brace :
    PThen(ParseBlock(toks, <<>>, brace.pos), LAMBDA then_branch :
    ParseElse(toks, condition, then_branch))))))

\* a _return_statement that looks for the closing brace only
ParseReturnStatementNoEndTest(toks, p) ==
    IF ~PCheck(toks, p, "RBRACE")
    THEN PThen(ParseExpression(toks, p), LAMBDA value :
         POk(ReturnStatement(value.node), value.pos))
    ELSE POk(ReturnStatement(None), p)

ParseReturnStatement(toks, p) ==
    IF ~PCheck(toks, p, "RBRACE") /\ ~PIsAtEnd(toks, p)
    THEN PThen(ParseExpression(toks, p), LAMBDA value :
         POk(ReturnStatement(value.node), value.pos))
    ELSE POk(ReturnStatement(None), p)

ParseStatement(toks, p) ==
    IF PMatch(toks, p, {"RETURN"}) THEN ParseReturnStatement(toks, p + 1)
    ELSE IF PMatch(toks, p, {"IF"}) THEN ParseIfStatement(toks, p + 1)
    ELSE IF PMatch(toks, p, {"LBRACE"}) THEN ParseBlock(toks, <<>>, p + 1)
    ELSE ParseExpressionStatement(toks, p)

ParseLetStatement(toks, p) ==
    PThen(PConsume(toks, p, "IDENT", "Expected variable name"),
          LAMBDA name_token :
    PThen(PConsume(toks, name_token.pos, "EQ",
                   "Expected '=' after variable name"), LAMBDA eq :
    PThen(ParseExpression(toks, eq.pos), LAMBDA value :
    POk(LetStatement(name_token.node.value, value.node), value.pos))))

\* the `while self._match(COMMA)` loop of _fn_declaration
ParseParams(toks, params, p) ==
    IF PMatch(toks, p, {"COMMA"})
    THEN PThen(PConsume(toks, p + 1, "IDENT", "Expected parameter name"),
               LAMBDA param :
         ParseParams(toks, Append(params, param.node.value), param.pos))
    ELSE POk(params, p)

ParseFnDeclaration(toks, p) ==
    PThen(PConsume(toks, p, "IDENT", "Expected function name"),
          LAMBDA name_token :
    PThen(PConsume(toks, name_token.pos, "LPAREN",
                   "Expected '(' after function name"), LAMBDA open :
    PThen(IF ~PCheck(toks, open.pos, "RPAREN")
          THEN PThen(PConsume(toks, open.pos, "IDENT",
                              "Expected parameter name"), LAMBDA first :
               ParseParams(toks, <<first.node.value>>, first.pos))
          ELSE POk(<<>>, open.pos), LAMBDA params :
    PThen(PConsume(toks, params.pos, "RPAREN",
                   "Expected ')' after parameters"), LAMBDA close :
    PThen(PConsume(toks, close.pos, "LBRACE",
                   "Expected '{' before function body"), LAMBDA brace :
    PThen(ParseBlock(toks, <<>>, brace.pos), LAMBDA body :
    POk(FnDeclaration(name_token.node.value, params.node, body.node),
        body.pos)))))))

\* a _declaration that takes a closing brace for an empty statement and
\* leaves it where it is
ParseDeclarationLeavesBrace(toks, p) ==
    IF PCheck(toks, p, "RBRACE") THEN POk(ExpressionStatement(None), p)
    ELSE IF PMatch(toks, p, {"FN"}) THEN ParseFnDeclaration(toks, p + 1)
    ELSE IF PMatch(toks, p, {"LET"}) THEN ParseLetStatement(toks, p + 1)
    ELSE ParseStatement(toks, p)

ParseDeclaration(toks, p) ==
    IF PMatch(toks, p, {"FN"}) THEN ParseFnDeclaration(toks, p + 1)
    ELSE IF PMatch(toks, p, {"LET"}) THEN ParseLetStatement(toks, p + 1)
    ELSE ParseStatement(toks, p)

(***************************************************************************)
(* ConstantFolder (optimizer.py).  A visit returns the node it built, or   *)
(* the exception one of its steps raised.                                  *)
(***************************************************************************)
OpAdd == <<"+">>
OpSub == <<"-">>
OpMul == <<"*">>
OpDiv == <<"/">>
OpLt == <<"<">>
OpGt == <<">">>
OpLe == <<"<", "=">>
OpGe == <<">", "=">>
OpEq == <<"=", "=">>
OpNe == <<"!", "=">>

IsRaise(r) == r.kind = "raise"

\* the first exception among a list of results, or None
FirstRaise(results) ==
    IF \E i \in DOMAIN results : IsRaise(results[i])
    THEN results[CHOOSE i \in DOMAIN results :
                    /\ IsRaise(results[i])
                    /\ \A j \in 1..(i - 1) : ~IsRaise(results[j])]
    ELSE None

\* an exception raised by a called method propagates; otherwise go on
OrRaise(r, K(_)) == IF IsRaise(r) THEN r ELSE K(r)

\* the same for a list of results
AllOrRaise(results, K(_)) ==
    IF FirstRaise(results) # None THEN FirstRaise(results) ELSE K(results)

PyFloatResult(v) == [kind |-> "float", value |-> v]

PyBoolResult(b) == [kind |-> "bool", value |-> b]

\* a fold whose division follows IEEE 754: x / 0 is an infinity or a NaN
FoldNumericMatchIeee(left, op, right) ==
    CASE op = OpAdd -> PyFloatResult(FAdd(left, right))
      [] op = OpSub -> PyFloatResult(FSub(left, right))
      [] op = OpMul -> PyFloatResult(FMul(left, right))
      [] op = OpDiv -> PyFloatResult(FDiv(left, right))
      [] op = OpLt -> PyBoolResult(FLt(left, right))
      [] op = OpGt -> PyBoolResult(FLt(right, left))
      [] op = OpLe -> PyBoolResult(FLe(left, right))
      [] op = OpGe -> PyBoolResult(FLe(right, left))
      [] op = OpEq -> PyBoolResult(FEq(left, right))
      [] op = OpNe -> PyBoolResult(~FEq(left, right))
      [] OTHER -> None

\* the match statement of _fold_numeric, without its try/except
FoldNumericMatch(left, op, right) ==
    CASE op = OpAdd -> PyFloatResult(FAdd(left, right))
      [] op = OpSub -> PyFloatResult(FSub(left, right))
      [] op = OpMul -> PyFloatResult(FMul(left, right))
      [] op = OpDiv ->
            IF ~FEq(right, FInt(0))
            THEN LET q == PyTrueDiv(left, right) IN
                 IF IsRaise(q) THEN q ELSE PyFloatResult(q.value)
            ELSE None
      [] op = OpLt -> PyBoolResult(FLt(left, right))
      [] op = OpGt -> PyBoolResult(FLt(right, left))
      [] op = OpLe -> PyBoolResult(FLe(left, right))
      [] op = OpGe -> PyBoolResult(FLe(right, left))
      [] op = OpEq -> PyBoolResult(FEq(left, right))
      [] op = OpNe -> PyBoolResult(~FEq(left, right))
      [] OTHER -> None

\* a fold with neither the zero test nor the try/except around the division
FoldNumericUnguarded(left, op, right) ==
    IF op = OpDiv
    THEN OrRaise(PyTrueDiv(left, right), LAMBDA q : PyFloatResult(q.value))
    ELSE FoldNumericMatch(left, op, right)

\* _fold_numeric: `except Exception: return None` around the match
FoldNumeric(left, op, right) ==
    LET result == FoldNumericMatch(left, op, right) IN
    IF IsRaise(result) THEN None ELSE result

\* a _fold_bool that also orders the two booleans, False before True
FoldBoolWithOrder(left, op, right) ==
    CASE op = OpEq -> PyBoolResult(left = right)
      [] op = OpNe -> PyBoolResult(left # right)
      [] op = OpLt -> PyBoolResult(~left /\ right)
      [] op = OpGt -> PyBoolResult(left /\ ~right)
      [] OTHER -> None

FoldBool(left, op, right) ==
    CASE op = OpEq -> PyBoolResult(left = right)
      [] op = OpNe -> PyBoolResult(left # right)
      [] OTHER -> None

\* the choice visit_binary_op makes from the three fold attempts
FoldChoice(left, operator, right, numeric, boolean) ==
    IF IsRaise(numeric) THEN numeric
    ELSE IF numeric.kind = "bool" THEN BoolLiteral(numeric.value)
    ELSE IF numeric.kind = "float" THEN NumberLiteral(numeric.value)
    ELSE IF /\ left.kind = "StringLiteral"
            /\ right.kind = "StringLiteral"
            /\ operator = OpAdd
    THEN StringLiteral(left.value \o right.value)
    ELSE IF boolean.kind = "bool" THEN BoolLiteral(boolean.value)
    ELSE BinaryOp(left, operator, right)

\* what visit_binary_op does with the two folded operands
FoldBinaryOp(left, operator, right) ==
    FoldChoice(left, operator, right,
               IF left.kind = "NumberLiteral" /\ right.kind = "NumberLiteral"
               THEN FoldNumeric(left.value, operator, right.value)
               ELSE None,
               IF left.kind = "BoolLiteral" /\ right.kind = "BoolLiteral"
               THEN FoldBool(left.value, operator, right.value)
               ELSE None)

\* a visit_unary_op that tests node.operand where the code tests operand
FoldUnaryOpStale(node, operand) ==
    IF node.operand.kind = "NumberLiteral" /\ node.operator = OpSub
    THEN NumberLiteral(FNeg(operand.value))
    ELSE UnaryOp(node.operator, operand)

\* visit_unary_op, with `operand` the result of _optimize_expr(node.operand)
FoldUnaryOp(node, operand) ==
    IF operand.kind = "NumberLiteral" /\ node.operator = OpSub
    THEN NumberLiteral(FNeg(operand.value))
    ELSE UnaryOp(node.operator, operand)

\* a visit_if that takes every literal condition for a constant one, a
\* number other than zero and a string counting as true
FoldIfAnyLiteral(condition, then_branch, else_branch) ==
    IF condition.kind \in {"BoolLiteral", "NumberLiteral", "StringLiteral"}
    THEN IF condition # BoolLiteral(FALSE)
            /\ condition # NumberLiteral(FInt(0))
         THEN then_branch
         ELSE IF else_branch # None THEN else_branch
         ELSE Block(<<>>)
    ELSE IfStatement(condition, then_branch, else_branch)

\* what visit_if does with the folded condition and branches
FoldIf(condition, then_branch, else_branch) ==
    IF condition.kind = "BoolLiteral"
    THEN IF condition.value THEN then_branch
         ELSE IF else_branch # None THEN else_branch
         ELSE Block(<<>>)
    ELSE IfStatement(condition, then_branch, else_branch)

RECURSIVE FoldExpr(_), FoldStmt(_), FoldBlock(_)

FoldExpr(node) ==
    CASE node.kind \in {"NumberLiteral", "StringLiteral", "BoolLiteral",
                        "Identifier"} -> node
      [] node.kind = "BinaryOp" ->
            OrRaise(FoldExpr(node.left), LAMBDA left :
            OrRaise(FoldExpr(node.right), LAMBDA right :
            FoldBinaryOp(left, node.operator, right)))
      [] node.kind = "UnaryOp" ->
            OrRaise(FoldExpr(node.operand), LAMBDA operand :
            FoldUnaryOp(node, operand))
      [] node.kind = "CallExpression" ->
            OrRaise(FoldExpr(node.callee), LAMBDA callee :
            AllOrRaise([i \in DOMAIN node.arguments |->
                           FoldExpr(node.arguments[i])], LAMBDA arguments :
            CallExpression(callee, arguments)))

FoldBlock(node) ==
    AllOrRaise([i \in DOMAIN node.statements |->
                   FoldStmt(node.statements[i])], LAMBDA statements :
    Block(statements))

FoldStmt(node) ==
    CASE node.kind = "LetStatement" ->
            OrRaise(FoldExpr(node.value), LAMBDA value :
            LetStatement(node.name, value))
      [] node.kind = "ReturnStatement" ->
            IF node.value # None
            THEN OrRaise(FoldExpr(node.value), LAMBDA value :
                 ReturnStatement(value))
            ELSE ReturnStatement(None)
      [] node.kind = "ExpressionStatement" ->
            OrRaise(FoldExpr(node.expression), LAMBDA expression :
            ExpressionStatement(expression))
      [] node.kind = "Block" -> FoldBlock(node)
      [] node.kind = "IfStatement" ->
            OrRaise(FoldExpr(node.condition), LAMBDA condition :
            OrRaise(FoldBlock(node.then_branch), LAMBDA then_branch :
            OrRaise(IF node.else_branch # None
                    THEN FoldBlock(node.else_branch)
                    ELSE None, LAMBDA else_branch :
            FoldIf(condition, then_branch, else_branch))))
      [] node.kind = "FnDeclaration" ->
            OrRaise(FoldBlock(node.body), LAMBDA body :
            FnDeclaration(node.name, node.params, body))

\* ConstantFolder.optimize
ConstantFolderOptimize(program) ==
    AllOrRaise([i \in DOMAIN program.statements |->
                   FoldStmt(program.statements[i])], LAMBDA optimized_stmts :
    Program(optimized_stmts))

(***************************************************************************)
(* DeadCodeEliminator (optimizer.py).  A visit takes the node, the usage   *)
(* table and the phase flag and returns its result (a node, or None for a  *)
(* removed declaration) with the usage table it leaves.                    *)
(***************************************************************************)
UsageInfo(defined, used) == [defined |-> defined, used |-> used]

\* a _mark_defined that sets both flags, as visit_fn does for a parameter
MarkDefinedAndUsed(u, name) ==
    IF name \in DOMAIN u
    THEN [u EXCEPT ![name].defined = TRUE, ![name].used = TRUE]
    ELSE (name :> UsageInfo(TRUE, TRUE)) @@ u

MarkDefined(u, name) ==
    IF name \in DOMAIN u
    THEN [u EXCEPT ![name].defined = TRUE]
    ELSE (name :> UsageInfo(TRUE, FALSE)) @@ u

MarkUsed(u, name) ==
    IF name \in DOMAIN u
    THEN [u EXCEPT ![name].used = TRUE]
    ELSE (name :> UsageInfo(FALSE, TRUE)) @@ u

NamePrint == <<"p", "r", "i", "n", "t">>

NameConsole == <<"c", "o", "n", "s", "o", "l", "e">>

\* an _is_used that takes every recorded name for a used one
IsUsedIfRecorded(u, name) ==
    IF name \in {NamePrint, NameConsole} THEN TRUE
    ELSE name \in DOMAIN u

\* an _is_used without the test for the built-in names
IsUsedNoBuiltins(u, name) == name \in DOMAIN u /\ u[name].used

IsUsed(u, name) ==
    IF name \in {NamePrint, NameConsole} THEN TRUE
    ELSE name \in DOMAIN u /\ u[name].used

DceResult(result, u) == [result |-> result, usages |-> u]

RECURSIVE MarkParamsDefinedOnly(_, _, _)
\* a loop over the parameters that marks them defined and not used
MarkParamsDefinedOnly(u, params, i) ==
    IF i > Len(params) THEN u
    ELSE MarkParamsDefinedOnly(MarkDefined(u, params[i]), params, i + 1)

\* for param in node.params: _mark_defined(param); _mark_used(param)
RECURSIVE MarkParams(_, _, _)
MarkParams(u, params, i) ==
    IF i > Len(params) THEN u
    ELSE MarkParams(MarkUsed(MarkDefined(u, params[i]), params[i]), params,
                    i + 1)

\* go on from the result of a visit, once the visit has returned
DceThen(r, K(_)) == CHOOSE result \in {K(x) : x \in {r}} : TRUE

\* the result list of a loop after one more visit
DceKeep(kept, r) == IF r.result # None THEN Append(kept, r.result) ELSE kept

RECURSIVE DceVisit(_, _, _), DceVisitAll(_, _, _, _, _)

\* stmt.accept(self) for each node of a list in turn: the results that are
\* not None, in order, and the usage table after the last visit
DceVisitAll(nodes, i, kept, u, collecting) ==
    IF i > Len(nodes) THEN DceResult(kept, u)
    ELSE DceThen(DceVisit(nodes[i], u, collecting), LAMBDA r :
         DceVisitAll(nodes, i + 1, DceKeep(kept, r), r.usages, collecting))

\* the second half of visit_if, which runs in the elimination phase only
DceIfBranches(node, u, collecting) ==
    DceThen(DceVisit(node.then_branch, u, collecting), LAMBDA then_branch :
    DceThen(IF node.else_branch # None
            THEN DceVisit(node.else_branch, then_branch.usages, collecting)
            ELSE DceResult(None, then_branch.usages), LAMBDA else_branch :
    DceResult(IfStatement(node.condition, then_branch.result,
                          else_branch.result),
              else_branch.usages)))

DceVisit(node, u, collecting) ==
    CASE node.kind \in {"NumberLiteral", "StringLiteral", "BoolLiteral"} ->
            DceResult(node, u)
      [] node.kind = "Identifier" ->
            DceResult(node, IF collecting THEN MarkUsed(u, node.name) ELSE u)
      [] node.kind = "BinaryOp" ->
            DceThen(DceVisit(node.left, u, collecting), LAMBDA l :
            DceThen(DceVisit(node.right, l.usages, collecting), LAMBDA r :
            DceResult(BinaryOp(node.left, node.operator, node.right),
                      r.usages)))
      [] node.kind = "UnaryOp" ->
            DceResult(node, DceVisit(node.operand, u, collecting).usages)
      [] node.kind = "CallExpression" ->
            DceThen(DceVisit(node.callee, u, collecting), LAMBDA c :
            DceResult(node,
                      DceVisitAll(node.arguments, 1, <<>>, c.usages,
                                  collecting).usages))
      [] node.kind = "LetStatement" ->
            IF collecting
            THEN DceResult(node,
                           DceVisit(node.value, MarkDefined(u, node.name),
                                    collecting).usages)
            ELSE IF ~IsUsed(u, node.name) THEN DceResult(None, u)
            ELSE DceResult(node, u)
      [] node.kind = "ReturnStatement" ->
            IF node.value # None
            THEN DceResult(node, DceVisit(node.value, u, collecting).usages)
            ELSE DceResult(node, u)
      [] node.kind = "ExpressionStatement" ->
            DceResult(node, DceVisit(node.expression, u, collecting).usages)
      [] node.kind = "Block" ->
            DceThen(DceVisitAll(node.statements, 1, <<>>, u, collecting),
                    LAMBDA all :
            IF collecting THEN DceResult(node, all.usages)
            ELSE DceResult(Block(all.result), all.usages))
      [] node.kind = "IfStatement" ->
            DceThen(DceVisit(node.condition, u, collecting), LAMBDA c :
            DceThen(DceVisit(node.then_branch, c.usages, collecting),
                    LAMBDA t :
            DceThen(IF node.else_branch # None
                    THEN DceVisit(node.else_branch, t.usages, collecting)
                    ELSE DceResult(None, t.usages), LAMBDA e :
            IF ~collecting THEN DceIfBranches(node, e.usages, collecting)
            ELSE DceResult(node, e.usages))))
      [] node.kind = "FnDeclaration" ->
            IF collecting
            THEN DceResult(node,
                           DceVisit(node.body,
                                    MarkParams(MarkDefined(u, node.name),
                                               node.params, 1),
                                    collecting).usages)
            ELSE IF ~IsUsed(u, node.name) THEN DceResult(None, u)
            ELSE DceThen(DceVisit(node.body, u, collecting), LAMBDA body :
                 DceResult(FnDeclaration(node.name, node.params, body.result),
                           body.usages))

\* DeadCodeEliminator.visit_program
DceVisitProgram(node, u, collecting) ==
    DceThen(DceVisitAll(node.statements, 1, <<>>, u, collecting),
            LAMBDA all :
    IF collecting THEN DceResult(node, all.usages)
    ELSE DceResult(Program(all.result), all.usages))

RECURSIVE DeadCodeEliminatorOptimizeToFixpoint(_)
\* an optimize that repeats the two traversals on its result until nothing
\* more is removed
DeadCodeEliminatorOptimizeToFixpoint(program) ==
    DceThen(DceVisitProgram(program, <<>>, TRUE), LAMBDA first :
    DceThen(DceVisitProgram(program, first.usages, FALSE), LAMBDA second :
    IF second.result = program
    THEN [result |-> second.result, usages |-> second.usages,
          in_collection_phase |-> FALSE]
    ELSE DeadCodeEliminatorOptimizeToFixpoint(second.result)))

\* DeadCodeEliminator.optimize: the Program it returns and the instance
\* state it leaves behind
DeadCodeEliminatorOptimize(program) ==
    DceThen(DceVisitProgram(program, <<>>, TRUE), LAMBDA first :
    DceThen(DceVisitProgram(program, first.usages, FALSE), LAMBDA second :
    [result |-> second.result, usages |-> second.usages,
     in_collection_phase |-> FALSE]))

(***************************************************************************)
(* Optimizer (optimizer.py)                                                *)
(***************************************************************************)
\* a pass list that holds the DeadCodeEliminator whatever enable_dead_code is
OptimizerPassesAlwaysEliminates(enable_constant_folding, enable_dead_code) ==
    (IF enable_constant_folding THEN <<"ConstantFolder">> ELSE <<>>)
    \o <<"DeadCodeEliminator">>

\* a pass list with dead-code elimination before constant folding
OptimizerPassesReversed(enable_constant_folding, enable_dead_code) ==
    (IF enable_dead_code THEN <<"DeadCodeEliminator">> ELSE <<>>)
    \o (IF enable_constant_folding THEN <<"ConstantFolder">> ELSE <<>>)

\* Optimizer.__init__: the pass list
OptimizerPasses(enable_constant_folding, enable_dead_code) ==
    (IF enable_constant_folding THEN <<"ConstantFolder">> ELSE <<>>)
    \o (IF enable_dead_code THEN <<"DeadCodeEliminator">> ELSE <<>>)

(***************************************************************************)
(* CodeGenerator (codegen.py).  A visit returns the text it built, or the  *)
(* exception one of its steps raised together with the value indent_level  *)
(* had at that moment.                                                     *)
(***************************************************************************)
GText(text) == [kind |-> "text", text |-> text]

GRaise(err, level) == [kind |-> "raise", error |-> err, level |-> level]

DigitChar(i) ==
    CASE i = 0 -> "0" [] i = 1 -> "1" [] i = 2 -> "2" [] i = 3 -> "3"
      [] i = 4 -> "4" [] i = 5 -> "5" [] i = 6 -> "6" [] i = 7 -> "7"
      [] i = 8 -> "8" [] i = 9 -> "9"

RECURSIVE NatStr(_)
NatStr(i) ==
    IF i < 10 THEN <<DigitChar(i)>>
    ELSE Append(NatStr(i \div 10), DigitChar(i % 10))

\* str(i) for an int
IntStr(i) == IF i < 0 THEN <<"-">> \o NatStr(-i) ELSE NatStr(i)

\* the digits after the decimal point of rem/d, by long division
RECURSIVE FracStr(_, _, _)
FracStr(rem, d, k) ==
    IF rem = 0 \/ k = 0 THEN <<>>
    ELSE <<DigitChar((rem * 10) \div d)>> \o FracStr((rem * 10) % d, d, k - 1)

\* str(x) for a float: the decimal expansion, cut after FracDigits places
FloatStr(x) ==
    IF IsNaN(x) THEN <<"n", "a", "n">>
    ELSE IF IsInf(x) THEN (IF x.n < 0 THEN <<"-", "i", "n", "f">> ELSE <<"i", "n", "f">>)
    ELSE (IF x.n < 0 THEN <<"-">> ELSE <<>>)
         \o NatStr(Abs(x.n) \div x.d) \o <<".">>
         \o (IF Abs(x.n) % x.d = 0 THEN <<"0">>
             ELSE FracStr(Abs(x.n) % x.d, x.d, FracDigits))

RECURSIVE Join(_, _)
\* sep.join(parts)
Join(parts, sep) ==
    IF Len(parts) = 0 THEN <<>>
    ELSE IF Len(parts) = 1 THEN parts[1]
    ELSE parts[1] \o sep \o Join(Tail(parts), sep)

indent_str == <<" ", " ">>

\* an _indent that gives one indent unit at every level but the outermost
IndentOnce(level) == IF level = 0 THEN <<>> ELSE indent_str

RECURSIVE Indent(_)
\* self.indent_str * self.indent_level
Indent(level) == IF level = 0 THEN <<>> ELSE indent_str \o Indent(level - 1)

\* visit_number, given int(node.value)
GenNumberWith(value, truncated) ==
    IF IsRaise(truncated) THEN truncated
    ELSE IF IsFinite(value) /\ value.d = 1
    THEN GText(IntStr(truncated.value))
    ELSE GText(FloatStr(value))

\* visit_number
GenNumber(value) == GenNumberWith(value, PyInt(value))

RECURSIVE ReplaceAll(_, _, _)
\* text.replace(old, new) for a one-character old
ReplaceAll(text, old, new) ==
    IF Len(text) = 0 THEN <<>>
    ELSE (IF Head(text) = old THEN new ELSE <<Head(text)>>)
         \o ReplaceAll(Tail(text), old, new)

\* a visit_string that escapes the quotes before the backslashes
GenStringQuotesFirst(value) ==
    GText(<<"\"">>
          \o ReplaceAll(ReplaceAll(ReplaceAll(value, "\"", <<"\\", "\"">>), "\\",
                                   <<"\\", "\\">>),
                        "\n", <<"\\", "n">>)
          \o <<"\"">>)

\* visit_string
GenString(value) ==
    GText(<<"\"">>
          \o ReplaceAll(ReplaceAll(ReplaceAll(value, "\\", <<"\\", "\\">>), "\"",
                                   <<"\\", "\"">>),
                        "\n", <<"\\", "n">>)
          \o <<"\"">>)

\* an exception raised inside an expression leaves indent_level as it is
RaiseAt(r, level) == IF IsRaise(r) THEN GRaise(r.error, level) ELSE r

\* a visit_call that emits every callee under its own name
CalleeNameKept(callee) == callee

\* callee = "console.log" if callee == "print"
CalleeName(callee) ==
    IF callee = <<"p", "r", "i", "n", "t">>
    THEN <<"c", "o", "n", "s", "o", "l", "e", ".", "l", "o", "g">>
    ELSE callee

RECURSIVE GenExpr(_), GenArgs(_, _, _), GenStmt(_, _), GenLines(_, _)

\* arg.accept(self) for each argument in turn, joined with ", "
GenArgs(arguments, i, texts) ==
    IF i > Len(arguments) THEN GText(Join(texts, <<",", " ">>))
    ELSE OrRaise(GenExpr(arguments[i]), LAMBDA arg :
         GenArgs(arguments, i + 1, Append(texts, arg.text)))

GenExpr(node) ==
    CASE node.kind = "NumberLiteral" -> GenNumber(node.value)
      [] node.kind = "StringLiteral" -> GenString(node.value)
      [] node.kind = "BoolLiteral" ->
            GText(IF node.value THEN <<"t", "r", "u", "e">> ELSE <<"f", "a", "l", "s", "e">>)
      [] node.kind = "Identifier" -> GText(node.name)
      [] node.kind = "BinaryOp" ->
            OrRaise(GenExpr(node.left), LAMBDA left :
            OrRaise(GenExpr(node.right), LAMBDA right :
            GText(<<"(">> \o left.text \o <<" ">> \o node.operator \o <<" ">>
                  \o right.text \o <<")">>)))
      [] node.kind = "UnaryOp" ->
            OrRaise(GenExpr(node.operand), LAMBDA operand :
            GText(<<"(">> \o node.operator \o operand.text \o <<")">>))
      [] node.kind = "CallExpression" ->
            OrRaise(GenExpr(node.callee), LAMBDA callee :
            OrRaise(GenArgs(node.arguments, 1, <<>>), LAMBDA arglist :
            GText(CalleeName(callee.text) \o <<"(">> \o arglist.text
                  \o <<")">>)))

RECURSIVE NonEmpty(_, _)
\* `if code: lines.append(code)` for each text from the i-th on
NonEmpty(codes, i) ==
    IF i > Len(codes) THEN <<>>
    ELSE (IF Len(codes[i].text) > 0 THEN <<codes[i].text>> ELSE <<>>)
         \o NonEmpty(codes, i + 1)

\* the loop of visit_program and visit_block, then "\n".join(lines); the
\* first statement that raises ends the loop
GenLines(statements, level) ==
    AllOrRaise([i \in DOMAIN statements |-> GenStmt(statements[i], level)],
               LAMBDA codes : GText(Join(NonEmpty(codes, 1), <<"\n">>)))

\* the text of visit_if up to the closing brace of the then-branch
IfText(base_indent, condition, then_body) ==
    base_indent \o <<"i", "f", " ", "(">> \o condition.text \o <<")", " ", "{">> \o <<"\n">>
    \o then_body.text \o <<"\n">> \o base_indent \o <<"}">>

GenStmt(node, level) ==
    CASE node.kind = "LetStatement" ->
            OrRaise(RaiseAt(GenExpr(node.value), level), LAMBDA value :
            GText(Indent(level) \o <<"l", "e", "t", " ">> \o node.name \o <<" ", "=", " ">>
                  \o value.text \o <<";">>))
      [] node.kind = "ReturnStatement" ->
            IF node.value # None
            THEN OrRaise(RaiseAt(GenExpr(node.value), level), LAMBDA value :
                 GText(Indent(level) \o <<"r", "e", "t", "u", "r", "n", " ">> \o value.text \o <<";">>))
            ELSE GText(Indent(level) \o <<"r", "e", "t", "u", "r", "n", ";">>)
      [] node.kind = "ExpressionStatement" ->
            OrRaise(RaiseAt(GenExpr(node.expression), level), LAMBDA expr :
            GText(Indent(level) \o expr.text \o <<";">>))
      [] node.kind = "Block" -> GenLines(node.statements, level)
      [] node.kind = "IfStatement" ->
            OrRaise(RaiseAt(GenExpr(node.condition), level),
                    LAMBDA condition :
            OrRaise(GenLines(node.then_branch.statements, level + 1),
                    LAMBDA then_body :
            IF node.else_branch # None
            THEN OrRaise(GenLines(node.else_branch.statements,
                                  level + 1), LAMBDA else_body :
                 GText(IfText(Indent(level), condition, then_body)
                       \o <<" ", "e", "l", "s", "e", " ", "{">> \o <<"\n">> \o else_body.text \o <<"\n">>
                       \o Indent(level) \o <<"}">>))
            ELSE GText(IfText(Indent(level), condition, then_body))))
      [] node.kind = "FnDeclaration" ->
            OrRaise(GenLines(node.body.statements, level + 1),
                    LAMBDA body :
            GText(Indent(level) \o <<"f", "u", "n", "c", "t", "i", "o", "n", " ">> \o node.name \o <<"(">>
                  \o Join(node.params, <<",", " ">>) \o <<")", " ", "{">> \o <<"\n">>
                  \o body.text \o <<"\n">> \o Indent(level) \o <<"}">>))

\* CodeGenerator.generate on an instance whose indent_level is `level`
Generate(program, level) == GenLines(program.statements, level)

(***************************************************************************)
(* Inputs.  A source text is drawn either character by character from a    *)
(* small alphabet or as a list of words joined by single spaces.           *)
(***************************************************************************)
Vocabulary ==
    {"let", "fn", "return", "if", "else", "true", "false", "x",
     "y", "a", "b", "c", "d", "f", "foo", "print",
     "unused", "result", "0", "1", "2", "3", "5", "100",
     "999", "1.5", "1.2.3", "1.", "(", ")", "{", "}",
     ",", "+", "-", "*", "/", "=", "==", "!=",
     "<", ">", "<=", ">=", "\"a\"", "\"b\"", "\"a", "!",
     ".5", "\n", "// c"}

\* the characters of a word
Chars(w) ==
    CASE w = "let" -> <<"l", "e", "t">>
      [] w = "fn" -> <<"f", "n">>
      [] w = "return" -> <<"r", "e", "t", "u", "r", "n">>
      [] w = "if" -> <<"i", "f">>
      [] w = "else" -> <<"e", "l", "s", "e">>
      [] w = "true" -> <<"t", "r", "u", "e">>
      [] w = "false" -> <<"f", "a", "l", "s", "e">>
      [] w = "x" -> <<"x">>
      [] w = "y" -> <<"y">>
      [] w = "a" -> <<"a">>
      [] w = "b" -> <<"b">>
      [] w = "c" -> <<"c">>
      [] w = "d" -> <<"d">>
      [] w = "f" -> <<"f">>
      [] w = "foo" -> <<"f", "o", "o">>
      [] w = "print" -> <<"p", "r", "i", "n", "t">>
      [] w = "unused" -> <<"u", "n", "u", "s", "e", "d">>
      [] w = "result" -> <<"r", "e", "s", "u", "l", "t">>
      [] w = "0" -> <<"0">>
      [] w = "1" -> <<"1">>
      [] w = "2" -> <<"2">>
      [] w = "3" -> <<"3">>
      [] w = "5" -> <<"5">>
      [] w = "100" -> <<"1", "0", "0">>
      [] w = "999" -> <<"9", "9", "9">>
      [] w = "1.5" -> <<"1", ".", "5">>
      [] w = "1.2.3" -> <<"1", ".", "2", ".", "3">>
      [] w = "1." -> <<"1", ".">>
      [] w = "(" -> <<"(">>
      [] w = ")" -> <<")">>
      [] w = "{" -> <<"{">>
      [] w = "}" -> <<"}">>
      [] w = "," -> <<",">>
      [] w = "+" -> <<"+">>
      [] w = "-" -> <<"-">>
      [] w = "*" -> <<"*">>
      [] w = "/" -> <<"/">>
      [] w = "=" -> <<"=">>
      [] w = "==" -> <<"=", "=">>
      [] w = "!=" -> <<"!", "=">>
      [] w = "<" -> <<"<">>
      [] w = ">" -> <<">">>
      [] w = "<=" -> <<"<", "=">>
      [] w = ">=" -> <<">", "=">>
      [] w = "\"a\"" -> <<"\"", "a", "\"">>
      [] w = "\"b\"" -> <<"\"", "b", "\"">>
      [] w = "\"a" -> <<"\"", "a">>
      [] w = "!" -> <<"!">>
      [] w = ".5" -> <<".", "5">>
      [] w = "\n" -> <<"\n">>
      [] w = "// c" -> <<"/", "/", " ", "c">>

RECURSIVE JoinWords(_)
JoinWords(ws) ==
    IF Len(ws) = 0 THEN <<>>
    ELSE IF Len(ws) = 1 THEN Chars(ws[1])
    ELSE Chars(ws[1]) \o <<" ">> \o JoinWords(Tail(ws))

SeqsUpTo(S, n) == UNION {[1..k -> S] : k \in 0..n}

\* the characters of the character-by-character sources
LexAlphabet == {"1", ".", "a", " ", "\n", "/", "\"", "=", "!", "\\"}

\* texts around the blanks that count as one column each
BlankSources == SeqsUpTo({"a", "\t", "\r", "\n"}, 4)

CharSources == SeqsUpTo(LexAlphabet, MaxSrcLen) \cup BlankSources

\* the words of the word-by-word sources
ParseVocabulary ==
    {"1", "1.2.3", "x", "(", ")", "+", "-", "*", "==", "<", "let", "=",
     "return", "if", "{", "}", "fn", ","}

\* whole programs, among them the ones the tests and the documentation use
CuratedSources ==
    {<<"let", "unused", "=", "100", "\n", "let", "result", "=", "1", "+",
       "2", "\n", "print", "(", "result", ")">>,
     <<"1", "+", "2", "*", "3">>,
     <<"a", "<", "b", "==", "c", ">", "d">>,
     <<"a", "-", "b", "-", "c">>,
     <<"foo", "(", ")", "(", ")", "(", ")">>,
     <<"1.2.3">>,
     <<"1.">>,
     <<".5">>,
     <<"999">>,
     <<"100", "+", "100">>,
     <<"let", "x", "=", "print", "(", "1", ")">>,
     <<"let", "x", "=", "1", "\n", "if", "(", "false", ")", "{", "print",
       "(", "x", ")", "}">>,
     <<"if", "(", "1", "<", "2", ")", "{", "x", "}", "else", "{", "y", "}">>,
     <<"1", "/", "(", "2", "-", "2", ")">>,
     <<"1", "+", "(", "2", "/", "0", ")">>,
     <<"fn", "f", "(", "a", ",", "b", ")", "{", "return", "a", "+", "b", "}",
       "\n", "f", "(", "1", ",", "2", ")">>,
     <<"fn", "f", "(", ")", "{", "let", "x", "=", "1.5", "\n", "return", "}">>,
     <<"\"a\"", "+", "\"b\"">>,
     <<"-", "-", "5">>,
     <<"print", "(", "\"a\"", ")">>,
     <<"let", "=", "1">>,
     <<"{", "x">>,
     <<"x", "!", "y">>,
     <<"\"a">>,
     <<"// c", "\n", "x">>,
     <<"return", "\n", "x">>,
     <<"fn", "f", "(", ")", "{", "return", "\n", "x", "(", ")", "}">>,
     <<"if", "(", "x", ")", "{", "return", "}", "else", "{", "return", "1",
       "}">>,
     <<>>}

\* the binary operators of the language, as words
ChainOperators == {"+", "-", "*", "/", "<", ">", "<=", ">=", "==", "!="}

\* the operand at the i-th place of an operator chain
OperandWord(i) == <<"a", "b", "c", "d", "x", "y">>[i]

RECURSIVE ChainWords(_, _)
\* the operators from the i-th on, each followed by its right operand
ChainWords(ops, i) ==
    IF i > Len(ops) THEN <<>>
    ELSE <<ops[i], OperandWord(i + 1)>> \o ChainWords(ops, i + 1)

\* a op b op c ...: every choice of at most MaxOps binary operators
PlainChains ==
    {<<OperandWord(1)>> \o ChainWords(ops, 1) :
        ops \in SeqsUpTo(ChainOperators, MaxOps)}

\* operands that are a name, a number, a negation, a call and a group
OperandForms ==
    {<<"a">>, <<"1">>, <<"-", "b">>, <<"f", "(", "c", ")">>,
     <<"(", "a", "+", "b", ")">>}

\* one or two operators between operands of every form
FormChains ==
    {l \o <<op>> \o r : l \in OperandForms, op \in {"-", "*", "=="},
                        r \in OperandForms}
    \cup {l \o <<op1>> \o m \o <<op2>> \o r :
            l \in OperandForms, op1 \in {"-", "*", "=="},
            m \in OperandForms, op2 \in {"-", "*", "=="},
            r \in OperandForms}

\* primary expressions, as words and as the node they stand for
CallChainPrimaries ==
    {[words |-> <<"foo">>, node |-> Identifier(<<"f", "o", "o">>)],
     [words |-> <<"\"a\"">>, node |-> StringLiteral(<<"a">>)],
     [words |-> <<"(", "x", ")">>, node |-> Identifier(<<"x">>)]}

\* parenthesized argument lists, as words and as the argument nodes
ArgumentLists ==
    {[words |-> <<"(", ")">>, nodes |-> <<>>],
     [words |-> <<"(", "x", ")">>, nodes |-> <<Identifier(<<"x">>)>>],
     [words |-> <<"(", "x", ",", "y", ")">>,
      nodes |-> <<Identifier(<<"x">>), Identifier(<<"y">>)>>]}

\* a primary expression followed by 1 to MaxChain argument lists
CallChains ==
    {[primary |-> pr, lists |-> ls] :
        pr \in CallChainPrimaries,
        ls \in SeqsUpTo(ArgumentLists, MaxChain) \ {<<>>}}

RECURSIVE ListWords(_, _)
\* the words of the argument lists from the i-th on
ListWords(lists, i) ==
    IF i > Len(lists) THEN <<>>
    ELSE lists[i].words \o ListWords(lists, i + 1)

CallChainWords(chain) == chain.primary.words \o ListWords(chain.lists, 1)

CallChainSources == {CallChainWords(chain) : chain \in CallChains}

\* sources that are one expression
ExprSources == PlainChains \cup FormChains \cup {<<"1", "+", "2", "*", "3">>}

DefaultArgs ==
    [exists |-> TRUE, output |-> FALSE, no_optimize |-> FALSE,
     enable_constant_folding |-> TRUE, enable_dead_code |-> TRUE]

NameX == <<"x">>

NameY == <<"y">>

NameF == <<"f">>

\* number literals: the small integers and the largest finite value
NumLeaves ==
    {NumberLiteral(FInt(i)) : i \in 0..MaxNum} \cup {NumberLiteral(FInt(FloatMax))}

Leaves ==
    NumLeaves \cup
    {StringLiteral(<<"a">>), BoolLiteral(TRUE), BoolLiteral(FALSE),
     Identifier(NameX)}

\* the operators the parser produces and one it does not
Operators ==
    {OpAdd, OpSub, OpMul, OpDiv, OpLt, OpGt, OpLe, OpGe, OpEq, OpNe, <<"%">>}

NestOperators == {OpAdd, OpSub, OpMul, OpDiv, OpLt, OpEq}

Exprs1 ==
    Leaves
    \cup {BinaryOp(l, op, r) : l \in Leaves, op \in Operators, r \in Leaves}
    \cup {UnaryOp(op, l) : op \in {OpSub, <<"!">>}, l \in Leaves}
    \cup {CallExpression(Identifier(NamePrint), <<l>>) : l \in Leaves}

NumBinaries ==
    {BinaryOp(l, op, r) : l \in NumLeaves, op \in NestOperators,
                          r \in NumLeaves}

Exprs2 ==
    {BinaryOp(l, op, e) : l \in NumLeaves, op \in NestOperators,
                          e \in NumBinaries}
    \cup {BinaryOp(e, op, r) : e \in NumBinaries, op \in NestOperators,
                               r \in NumLeaves}
    \cup {UnaryOp(OpSub, e) : e \in NumBinaries}
    \cup {UnaryOp(OpSub, UnaryOp(op, l)) : op \in {OpSub, <<"!">>},
                                           l \in Leaves}
    \cup {BinaryOp(l, OpDiv, UnaryOp(OpSub, r)) : l \in NumLeaves,
                                                  r \in NumLeaves}

PrintX == ExpressionStatement(CallExpression(Identifier(NamePrint),
                                             <<Identifier(NameX)>>))

\* programs that exercise folding: one statement around an expression
FoldPrograms ==
    {Program(<<ExpressionStatement(e)>>) : e \in Exprs1 \cup Exprs2}
    \cup {Program(<<LetStatement(NameX, e), ReturnStatement(e)>>) :
             e \in NumBinaries}
    \cup {Program(<<IfStatement(c, Block(<<PrintX>>), el)>>) :
             c \in Exprs1,
             el \in {None, Block(<<ReturnStatement(None)>>)}}
    \cup {Program(<<IfStatement(c, Block(<<LetStatement(NameX,
                                                 NumberLiteral(FInt(1))),
                                              PrintX>>), None)>>) :
             c \in {BoolLiteral(TRUE), BoolLiteral(FALSE),
                    Identifier(NameX)}}
    \cup {Program(<<IfStatement(c,
                 Block(<<ExpressionStatement(
                     BinaryOp(NumberLiteral(FInt(1)), OpAdd,
                              NumberLiteral(FInt(1))))>>),
                 Block(<<IfStatement(inner,
                     Block(<<ReturnStatement(
                         BinaryOp(NumberLiteral(FInt(1)), OpLt,
                                  NumberLiteral(FInt(2))))>>), None)>>))>>) :
             c \in {BoolLiteral(TRUE), BoolLiteral(FALSE), Identifier(NameX),
                    NumberLiteral(FInt(0)),
                    BinaryOp(NumberLiteral(FInt(1)), OpLt,
                             NumberLiteral(FInt(2))),
                    BinaryOp(NumberLiteral(FInt(2)), OpLt,
                             NumberLiteral(FInt(1))),
                    BinaryOp(StringLiteral(<<"a">>), OpEq,
                             StringLiteral(<<"a">>))},
             inner \in {BoolLiteral(TRUE), BoolLiteral(FALSE),
                        Identifier(NameX)}}
    \cup {Program(<<FnDeclaration(NameF, <<NameX>>,
                                  Block(<<IfStatement(c, Block(<<>>), None),
                                          ReturnStatement(c)>>))>>) :
             c \in NumBinaries}

One == NumberLiteral(FInt(1))

\* statements that exercise dead-code elimination
DceStatements ==
    {LetStatement(NameX, One),
     LetStatement(NameY, Identifier(NameX)),
     LetStatement(NameX, CallExpression(Identifier(NamePrint), <<One>>)),
     LetStatement(NameX, Identifier(NameX)),
     LetStatement(NamePrint, One),
     PrintX,
     ExpressionStatement(Identifier(NameY)),
     ExpressionStatement(CallExpression(Identifier(NameF), <<One>>)),
     ReturnStatement(None),
     FnDeclaration(NameF, <<NameY>>,
                   Block(<<LetStatement(NameX, One),
                           ReturnStatement(Identifier(NameX))>>)),
     FnDeclaration(NameF, <<>>,
                   Block(<<ExpressionStatement(
                               CallExpression(Identifier(NameF), <<>>))>>)),
     FnDeclaration(NameConsole, <<>>, Block(<<>>)),
     IfStatement(BoolLiteral(FALSE), Block(<<PrintX>>), None),
     IfStatement(BinaryOp(One, OpLt, One), Block(<<PrintX>>),
                 Block(<<LetStatement(NameY, One)>>)),
     IfStatement(Identifier(NameY), Block(<<LetStatement(NameX, One)>>),
                 Block(<<LetStatement(NameY, One), PrintX>>)),
     Block(<<LetStatement(NameY, One), PrintX>>)}

DcePrograms == {Program(ss) : ss \in SeqsUpTo(DceStatements, MaxStmts)}

\* declarations of the built-in names inside functions and branches
BuiltinPrograms ==
    {Program(<<FnDeclaration(NameF, <<>>,
                             Block(<<LetStatement(NamePrint, One)>>))>>),
     Program(<<FnDeclaration(NameF, <<>>,
                   Block(<<FnDeclaration(NameConsole, <<>>, Block(<<>>)),
                           LetStatement(NameY, One)>>)),
               ExpressionStatement(CallExpression(Identifier(NameF), <<>>))>>),
     Program(<<IfStatement(Identifier(NameX),
                           Block(<<LetStatement(NameConsole, One),
                                   LetStatement(NameY, One)>>),
                           Block(<<FnDeclaration(NamePrint, <<>>,
                                                 Block(<<>>))>>))>>)}

\* a helper function called only from a function that nothing calls
HelperPrograms ==
    LET helper == FnDeclaration(NameY, <<>>, Block(<<>>))
        caller == FnDeclaration(NameF, <<>>,
                      Block(<<ExpressionStatement(
                                  CallExpression(Identifier(NameY), <<>>))>>))
    IN  {Program(<<helper, caller>>), Program(<<caller, helper>>),
         Program(<<helper, caller, LetStatement(NameX, Identifier(NameF))>>)}

Programs ==
    FoldPrograms \cup DcePrograms \cup BuiltinPrograms \cup HelperPrograms

\* the characters of the generated string literals: the three that
\* visit_string escapes, the letter of the newline escape, and another
StrAlphabet == {"\\", "\"", "\n", "n", "a"}

StringPrograms ==
    {Program(<<ExpressionStatement(StringLiteral(s))>>) :
        s \in SeqsUpTo(StrAlphabet, MaxStrLen)}

PrintCall(arguments) == CallExpression(Identifier(NamePrint), arguments)

\* statements around the name print: as a callee, as an argument, as a
\* declared name and as a parameter
PrintStatements ==
    {ExpressionStatement(PrintCall(<<>>)),
     PrintX,
     ExpressionStatement(PrintCall(<<Identifier(NamePrint), One>>)),
     ExpressionStatement(Identifier(NamePrint)),
     ExpressionStatement(CallExpression(Identifier(NameF),
                                        <<Identifier(NamePrint)>>)),
     ExpressionStatement(CallExpression(PrintCall(<<>>), <<>>)),
     ExpressionStatement(BinaryOp(PrintCall(<<One>>), OpAdd,
                                  Identifier(NamePrint))),
     LetStatement(NamePrint, One),
     LetStatement(NameX, UnaryOp(OpSub, Identifier(NamePrint))),
     ReturnStatement(PrintCall(<<PrintCall(<<>>)>>)),
     FnDeclaration(NamePrint, <<NameX>>,
                   Block(<<ReturnStatement(Identifier(NameX))>>)),
     FnDeclaration(NameF, <<NamePrint, NameX>>,
                   Block(<<ExpressionStatement(
                               PrintCall(<<Identifier(NamePrint)>>))>>)),
     IfStatement(Identifier(NamePrint), Block(<<PrintX>>),
                 Block(<<IfStatement(PrintCall(<<>>), Block(<<>>), None)>>))}

PrintPrograms == {Program(ss) : ss \in SeqsUpTo(PrintStatements, 2)}

\* the statements that put a body inside a function, the branches of an if
\* and a bare block
Wrapped(body) ==
    {FnDeclaration(NameF, <<>>, Block(body)),
     IfStatement(Identifier(NameX), Block(body), None),
     IfStatement(Identifier(NameX), Block(body), Block(<<PrintX>>)),
     IfStatement(Identifier(NameX), Block(<<>>), Block(body)),
     Block(body)}

RECURSIVE NestedStatements(_)
\* statements with blocks nested at most d deep
NestedStatements(d) ==
    IF d = 0 THEN {PrintX, ReturnStatement(None)}
    ELSE NestedStatements(d - 1)
         \cup UNION {Wrapped(body) :
                        body \in SeqsUpTo(NestedStatements(d - 1),
                                          IF d = 1 THEN 2 ELSE 1)}

NestedPrograms == {Program(<<s>>) : s \in NestedStatements(MaxDepth)}

\* the programs handed to CodeGenerator.generate
GenPrograms == StringPrograms \cup PrintPrograms \cup NestedPrograms

\* the programs of a later call on an instance that was used before
ReusePrograms ==
    {Program(ss) : ss \in SeqsUpTo({PrintX, LetStatement(NameX, One),
                                    LetStatement(NameY, Identifier(NameX)),
                                    FnDeclaration(NameF, <<NameX>>,
                                                  Block(<<PrintX>>)),
                                    IfStatement(Identifier(NameX),
                                                Block(<<PrintX>>), None)},
                                   1)}

(***************************************************************************)
(* The state machine.  pc is the stage that runs next.                     *)
(***************************************************************************)
Start(e, a, src, prog, startPc, startTrace) ==
    /\ entry = e
    /\ args = a
    /\ pc = startPc
    /\ source = src
    /\ pos = 0
    /\ line = 1
    /\ column = 1
    /\ lexTokens = <<>>
    /\ tokens = <<>>
    /\ parserPos = 0
    /\ parseStatements = <<>>
    /\ ast = prog
    /\ input = prog
    /\ passes = <<>>
    /\ passIdx = 1
    /\ usages = <<>>
    /\ in_collection_phase = TRUE
    /\ indent_level = 0
    /\ js_code = None
    /\ error = NoError
    /\ trace = startTrace
    /\ outFile = None
    /\ stdout = None
    /\ stderr = None
    /\ exitStatus = -1

\* the caller runs Lexer(source).tokenize()
InitLex ==
    \E src \in CharSources :
        Start("tokenize", DefaultArgs, src, None, "lex", <<"tokenize">>)

\* the caller runs tokenize and hands the tokens to Parser(tokens).parse()
InitParse ==
    \E ws \in SeqsUpTo(ParseVocabulary, MaxWords) \cup CuratedSources
                \cup ExprSources \cup CallChainSources :
        Start("parse", DefaultArgs, JoinWords(ws), None, "lex",
              <<"tokenize">>)

\* the caller runs Optimizer(cf, dce).optimize(program)
InitOpt ==
    \E prog \in Programs, cf \in BOOLEAN, dce \in BOOLEAN :
        Start("optimize",
              [DefaultArgs EXCEPT !.enable_constant_folding = cf,
                                  !.enable_dead_code = dce],
              <<>>, prog, "call_optimize", <<>>)

\* the caller constructs an Optimizer or a CodeGenerator and calls it
InitCalls ==
    \/ \E prog \in GenPrograms :
            Start("generate", DefaultArgs, <<>>, prog, "generate", <<>>)
    \/ \E prog \in DcePrograms, cf \in BOOLEAN, dce \in BOOLEAN :
            Start("optimize",
                  [DefaultArgs EXCEPT !.enable_constant_folding = cf,
                                      !.enable_dead_code = dce],
                  <<>>, prog, "call_optimize", <<>>)

\* main() runs compile_command(args) on a file that holds the source
Init ==
    \E ws \in CuratedSources, ex \in BOOLEAN, out \in BOOLEAN,
       noopt \in BOOLEAN :
        Start("compile",
              [DefaultArgs EXCEPT !.exists = ex, !.output = out,
                                  !.no_optimize = noopt],
              JoinWords(ws), None, "start", <<>>)

\* compile_command up to the call of Lexer.tokenize in compile_source
CompileCommandStart ==
    /\ pc = "start"
    /\ \/ /\ ~args.exists
          /\ stderr' = [kind |-> "File not found"]
          /\ exitStatus' = 1
          /\ pc' = "done"
          /\ trace' = trace
       \/ /\ args.exists
          /\ trace' = Append(trace, "tokenize")
          /\ pc' = "lex"
          /\ UNCHANGED <<stderr, exitStatus>>
    /\ UNCHANGED <<entry, args, source, pos, line, column, lexTokens, tokens,
                   ast, input, passes, passIdx, usages, in_collection_phase,
                   indent_level, js_code, parserPos, parseStatements, error,
                   outFile, stdout>>

\* what an iteration of the loop of Lexer.tokenize does with the outcome
\* of _next_token
TokenizeApply(r) ==
    /\ pos' = r.cur.pos
    /\ line' = r.cur.line
    /\ column' = r.cur.column
    /\ lexTokens' = IF r.kind = "token" THEN Append(lexTokens, r.token)
                    ELSE lexTokens
    /\ error' = IF r.kind = "raise" THEN r.error ELSE error
    /\ pc' = IF r.kind = "raise" THEN "raised" ELSE pc

\* one iteration of the loop of Lexer.tokenize: a call of _next_token
TokenizeStep ==
    /\ pc = "lex"
    /\ ~IsAtEnd(source, Cursor(pos, line, column))
    /\ TokenizeApply(NextToken(source, Cursor(pos, line, column)))
    /\ UNCHANGED <<entry, args, source, tokens, ast, input, passes, passIdx,
                   usages, in_collection_phase, indent_level, js_code,
                   parserPos, parseStatements, stderr, trace, outFile, stdout,
                   exitStatus>>

\* the end of Lexer.tokenize: the end-of-input token and the return
TokenizeReturn ==
    /\ pc = "lex"
    /\ IsAtEnd(source, Cursor(pos, line, column))
    /\ lexTokens' = Append(lexTokens, Token("EOF", <<>>, line, column))
    /\ tokens' = lexTokens'
    /\ trace' = IF entry = "tokenize" THEN Append(trace, "tokenize.return")
                ELSE trace \o <<"tokenize.return", "parse">>
    /\ pc' = IF entry = "tokenize" THEN "done" ELSE "parse"
    /\ UNCHANGED <<entry, args, source, pos, line, column, ast, input, passes,
                   passIdx, usages, in_collection_phase, indent_level,
                   js_code, parserPos, parseStatements, stderr, error,
                   outFile, stdout, exitStatus>>

\* a compile_source that goes from the parser straight to the generator
AfterParseSkipsOptimizer ==
    IF entry = "parse" THEN "done" ELSE "generate"

\* the stage compile_source runs after a successful parse
AfterParse ==
    IF entry = "parse" THEN "done"
    ELSE IF ~args.no_optimize THEN "call_optimize"
    ELSE "generate"

\* what the loop of Parser.parse does with the outcome of _declaration
ParseApply(r) ==
    /\ parserPos' = r.pos
    /\ parseStatements' = IF r.ok THEN Append(parseStatements, r.node)
                          ELSE parseStatements
    /\ error' = IF r.ok THEN error ELSE r.error
    /\ pc' = IF r.ok THEN pc ELSE "raised"

\* one iteration of the loop of Parser.parse: a call of _declaration
ParseStep ==
    /\ pc = "parse"
    /\ ~PIsAtEnd(tokens, parserPos)
    /\ ParseApply(ParseDeclaration(tokens, parserPos))
    /\ UNCHANGED <<entry, args, source, pos, line, column, lexTokens, tokens,
                   ast, input, passes, passIdx, usages, in_collection_phase,
                   indent_level, js_code, stderr, trace, outFile, stdout,
                   exitStatus>>

\* the end of Parser.parse: return Program(statements)
ParseReturn ==
    /\ pc = "parse"
    /\ PIsAtEnd(tokens, parserPos)
    /\ ast' = Program(parseStatements)
    /\ trace' = Append(trace, "parse.return")
    /\ pc' = AfterParse
    /\ UNCHANGED <<entry, args, source, pos, line, column, lexTokens, tokens,
                   input, passes, passIdx, usages, in_collection_phase,
                   indent_level, js_code, parserPos, parseStatements, stderr,
                   error, outFile, stdout, exitStatus>>

\* Optimizer(...) is constructed and optimize is called
CallOptimize ==
    /\ pc = "call_optimize"
    /\ passes' = OptimizerPasses(args.enable_constant_folding,
                                 args.enable_dead_code)
    /\ passIdx' = 1
    /\ trace' = Append(trace, "optimize")
    /\ pc' = "optimize"
    /\ UNCHANGED <<entry, args, source, pos, line, column, lexTokens, tokens,
                   ast, input, usages, in_collection_phase, indent_level,
                   js_code, parserPos, parseStatements, stderr, error,
                   outFile, stdout, exitStatus>>

\* a DeadCodeEliminator.optimize that collects into the usage table the
\* instance holds, without emptying it first
RunPassKeepsUsages(name, program, u, collecting) ==
    IF name = "ConstantFolder"
    THEN [result |-> ConstantFolderOptimize(program), usages |-> u,
          in_collection_phase |-> collecting]
    ELSE DceThen(DceVisitProgram(program, u, TRUE), LAMBDA first :
         DceThen(DceVisitProgram(program, first.usages, FALSE),
                 LAMBDA second :
         [result |-> second.result, usages |-> second.usages,
          in_collection_phase |-> FALSE]))

\* opt_pass.optimize(result): the result (a Program or an exception) and the
\* state the DeadCodeEliminator instance is left in
RunPass(name, program, u, collecting) ==
    IF name = "ConstantFolder"
    THEN [result |-> ConstantFolderOptimize(program), usages |-> u,
          in_collection_phase |-> collecting]
    ELSE DeadCodeEliminatorOptimize(program)

\* a pass that stores its statement list in the Program it was given
\* instead of building a new Program
PassApplyInPlace(r) ==
    /\ ast' = IF IsRaise(r.result) THEN ast ELSE r.result
    /\ input' = IF IsRaise(r.result) THEN input ELSE r.result
    /\ error' = IF IsRaise(r.result) THEN r.result.error ELSE error
    /\ pc' = IF IsRaise(r.result) THEN "raised" ELSE pc
    /\ usages' = r.usages
    /\ in_collection_phase' = r.in_collection_phase

\* result = opt_pass.optimize(result), or the exception it raised; the pass
\* assigns to no field of a node it was given and changes none of their
\* lists, so the caller's tree stays as it is
PassApply(r) ==
    /\ ast' = IF IsRaise(r.result) THEN ast ELSE r.result
    /\ input' = input
    /\ error' = IF IsRaise(r.result) THEN r.result.error ELSE error
    /\ pc' = IF IsRaise(r.result) THEN "raised" ELSE pc
    /\ usages' = r.usages
    /\ in_collection_phase' = r.in_collection_phase

\* one iteration of the loop of Optimizer.optimize
OptimizePass ==
    /\ pc = "optimize"
    /\ passIdx <= Len(passes)
    /\ PassApply(RunPass(passes[passIdx], ast, usages, in_collection_phase))
    /\ passIdx' = passIdx + 1
    /\ UNCHANGED <<entry, args, source, pos, line, column, lexTokens, tokens,
                   passes, indent_level, js_code, parserPos,
                   parseStatements, stderr, trace, outFile, stdout,
                   exitStatus>>

\* the return of Optimizer.optimize
OptimizeReturn ==
    /\ pc = "optimize"
    /\ passIdx > Len(passes)
    /\ trace' = Append(trace, "optimize.return")
    /\ pc' = IF entry = "optimize" THEN "done" ELSE "generate"
    /\ UNCHANGED <<entry, args, source, pos, line, column, lexTokens, tokens,
                   ast, input, passes, passIdx, usages, in_collection_phase,
                   indent_level, js_code, parserPos, parseStatements, stderr,
                   error, outFile, stdout, exitStatus>>

\* what the caller of generate sees: the text, or the exception
GenerateApply(r) ==
    /\ js_code' = IF IsRaise(r) THEN js_code ELSE r
    /\ indent_level' = IF IsRaise(r) THEN r.level ELSE indent_level
    /\ error' = IF IsRaise(r) THEN r.error ELSE error
    /\ trace' = IF IsRaise(r) THEN Append(trace, "generate")
                ELSE trace \o <<"generate", "generate.return">>
    /\ pc' = IF IsRaise(r) THEN "raised"
             ELSE IF entry = "generate" THEN "done"
             ELSE "write"

\* CodeGenerator().generate(ast)
GenerateStep ==
    /\ pc = "generate"
    /\ GenerateApply(Generate(ast, indent_level))
    /\ UNCHANGED <<entry, args, source, pos, line, column, lexTokens, tokens,
                   ast, input, passes, passIdx, usages, in_collection_phase,
                   parserPos, parseStatements, stderr, outFile, stdout,
                   exitStatus>>

\* the caller calls generate again, on the CodeGenerator it used before
GenerateAgain ==
    /\ pc = "done"
    /\ entry = "generate"
    /\ Len(trace) < 2 * MaxCalls
    /\ \E prog \in ReusePrograms :
           /\ ast' = prog
           /\ input' = prog
    /\ pc' = "generate"
    /\ UNCHANGED <<entry, args, source, pos, line, column, lexTokens, tokens,
                   passes, passIdx, usages, in_collection_phase,
                   indent_level, js_code, parserPos, parseStatements, stderr,
                   error, trace, outFile, stdout, exitStatus>>

\* the caller calls optimize again, on the Optimizer it used before
OptimizeAgain ==
    /\ pc = "done"
    /\ entry = "optimize"
    /\ Len(trace) < 2 * MaxCalls
    /\ \E prog \in ReusePrograms :
           /\ ast' = prog
           /\ input' = prog
    /\ passIdx' = 1
    /\ trace' = Append(trace, "optimize")
    /\ pc' = "optimize"
    /\ UNCHANGED <<entry, args, source, pos, line, column, lexTokens, tokens,
                   passes, usages, in_collection_phase, indent_level,
                   js_code, parserPos, parseStatements, stderr, error,
                   outFile, stdout, exitStatus>>

\* compile_command after compile_source returned: write or print, return 0
CompileCommandFinish ==
    /\ pc = "write"
    /\ outFile' = IF args.output THEN js_code ELSE outFile
    /\ stdout' = IF args.output THEN [kind |-> "Compiled"] ELSE js_code
    /\ exitStatus' = 0
    /\ pc' = "done"
    /\ UNCHANGED <<entry, args, source, pos, line, column, lexTokens, tokens,
                   ast, input, passes, passIdx, usages, in_collection_phase,
                   indent_level, js_code, parserPos, parseStatements, stderr,
                   error, trace>>

\* the except clauses of compile_command
CompileCommandExcept ==
    /\ pc = "raised"
    /\ entry = "compile"
    /\ stderr' = IF error.kind = "LexerError" THEN [kind |-> "Lexer error"]
                 ELSE IF error.kind = "ParseError"
                 THEN [kind |-> "Parse error"]
                 ELSE [kind |-> "Error"]
    /\ exitStatus' = 1
    /\ pc' = "done"
    /\ UNCHANGED <<entry, args, source, pos, line, column, lexTokens, tokens,
                   ast, input, passes, passIdx, usages, in_collection_phase,
                   indent_level, js_code, parserPos, parseStatements, error,
                   trace, outFile, stdout>>

NextLex == TokenizeStep \/ TokenizeReturn

NextParse == TokenizeStep \/ TokenizeReturn \/ ParseStep \/ ParseReturn

NextOpt == CallOptimize \/ OptimizePass \/ OptimizeReturn

NextCalls ==
    \/ CallOptimize
    \/ OptimizePass
    \/ OptimizeReturn
    \/ OptimizeAgain
    \/ GenerateStep
    \/ GenerateAgain

Next ==
    \/ CompileCommandStart
    \/ TokenizeStep
    \/ TokenizeReturn
    \/ ParseStep
    \/ ParseReturn
    \/ CallOptimize
    \/ OptimizePass
    \/ OptimizeReturn
    \/ GenerateStep
    \/ CompileCommandFinish
    \/ CompileCommandExcept

\* Lexer.tokenize on every short source text
SpecLex == InitLex /\ [][NextLex]_vars

\* tokenize, then Parser.parse, on every short sequence of words
SpecParse == InitParse /\ [][NextParse]_vars

\* Optimizer.optimize on every Program of a bounded shape
SpecOpt == InitOpt /\ [][NextOpt]_vars

\* direct calls of Optimizer.optimize and of CodeGenerator.generate, the
\* instance being used again for further calls
SpecCalls == InitCalls /\ [][NextCalls]_vars

\* compile_command on whole programs
Spec == Init /\ [][Next]_vars

(***************************************************************************)
(* Properties.                                                             *)
(***************************************************************************)
\* the stage whose call is the last event of the trace
LastEvent == IF Len(trace) = 0 THEN "" ELSE trace[Len(trace)]

\* Optimizer.optimize returned, and these were its passes
Optimized(ps) == pc = "done" /\ entry = "optimize" /\ passes = ps

BothPasses == <<"ConstantFolder", "DeadCodeEliminator">>

\* C1: whenever Parser.parse fails on the tokens of Lexer.tokenize, the
\* failure is a ParseError that carries one of those tokens.
C1_ParseFailsOnlyWithParseError ==
    (pc = "raised" /\ LastEvent = "parse") =>
        /\ error.kind = "ParseError"
        /\ \E i \in DOMAIN tokens : error.token = tokens[i]

RECURSIVE PrintCallsIn(_)
\* the print(...) calls that occur in an expression
PrintCallsIn(e) ==
    CASE e.kind = "CallExpression" ->
            (IF e.callee = Identifier(NamePrint) THEN {e} ELSE {})
            \cup PrintCallsIn(e.callee)
            \cup UNION {PrintCallsIn(e.arguments[i]) : i \in DOMAIN e.arguments}
      [] e.kind = "BinaryOp" -> PrintCallsIn(e.left) \cup PrintCallsIn(e.right)
      [] e.kind = "UnaryOp" -> PrintCallsIn(e.operand)
      [] OTHER -> {}

\* the print(...) calls of a top-level expression statement or let value
TopLevelPrintCalls(s) ==
    CASE s.kind = "ExpressionStatement" -> PrintCallsIn(s.expression)
      [] s.kind = "LetStatement" -> PrintCallsIn(s.value)
      [] OTHER -> {}

RECURSIVE PrintCallsOf(_)
\* the print(...) calls that occur anywhere in a statement
PrintCallsOf(s) ==
    CASE s.kind \in {"ExpressionStatement", "LetStatement"} ->
            TopLevelPrintCalls(s)
      [] s.kind = "ReturnStatement" ->
            IF s.value # None THEN PrintCallsIn(s.value) ELSE {}
      [] s.kind = "Block" ->
            UNION {PrintCallsOf(s.statements[i]) : i \in DOMAIN s.statements}
      [] s.kind = "IfStatement" ->
            PrintCallsIn(s.condition) \cup PrintCallsOf(s.then_branch)
            \cup (IF s.else_branch # None THEN PrintCallsOf(s.else_branch)
                  ELSE {})
      [] s.kind = "FnDeclaration" -> PrintCallsOf(s.body)

\* C2: after Optimizer().optimize, every print(...) call of a top-level
\* expression statement or top-level let value of the input (with its
\* arguments folded) still occurs in the returned Program.
C2_TopLevelPrintCallsSurvive ==
    Optimized(BothPasses) =>
        \A i \in DOMAIN input.statements :
            \A c \in TopLevelPrintCalls(input.statements[i]) :
                FoldExpr(c) \in PrintCallsOf(Block(ast.statements))

RECURSIVE UsedNames(_)
\* the names a node marks used: every identifier in it and every parameter
UsedNames(node) ==
    CASE node.kind = "Identifier" -> {node.name}
      [] node.kind = "BinaryOp" -> UsedNames(node.left) \cup UsedNames(node.right)
      [] node.kind = "UnaryOp" -> UsedNames(node.operand)
      [] node.kind = "CallExpression" ->
            UsedNames(node.callee)
            \cup UNION {UsedNames(node.arguments[i]) :
                           i \in DOMAIN node.arguments}
      [] node.kind = "LetStatement" -> UsedNames(node.value)
      [] node.kind = "ReturnStatement" ->
            IF node.value # None THEN UsedNames(node.value) ELSE {}
      [] node.kind = "ExpressionStatement" -> UsedNames(node.expression)
      [] node.kind \in {"Block", "Program"} ->
            UNION {UsedNames(node.statements[i]) : i \in DOMAIN node.statements}
      [] node.kind = "IfStatement" ->
            UsedNames(node.condition) \cup UsedNames(node.then_branch)
            \cup (IF node.else_branch # None THEN UsedNames(node.else_branch)
                  ELSE {})
      [] node.kind = "FnDeclaration" ->
            {node.params[i] : i \in DOMAIN node.params}
            \cup UsedNames(node.body)
      [] OTHER -> {}

\* a let statement or function declaration whose name is not among `used`
IsUnusedDeclaration(s, used) ==
    s.kind \in {"LetStatement", "FnDeclaration"} /\ s.name \notin used

RECURSIVE Pruned(_, _), PrunedList(_, _, _)
\* the statements from the i-th on, without the unused declarations
PrunedList(statements, i, used) ==
    IF i > Len(statements) THEN <<>>
    ELSE (IF IsUnusedDeclaration(statements[i], used) THEN <<>>
          ELSE <<Pruned(statements[i], used)>>)
         \o PrunedList(statements, i + 1, used)

\* a kept statement, with the unused declarations inside it removed
Pruned(s, used) ==
    CASE s.kind = "Block" -> Block(PrunedList(s.statements, 1, used))
      [] s.kind = "IfStatement" ->
            IfStatement(s.condition, Pruned(s.then_branch, used),
                        IF s.else_branch # None
                        THEN Pruned(s.else_branch, used) ELSE None)
      [] s.kind = "FnDeclaration" ->
            FnDeclaration(s.name, s.params, Pruned(s.body, used))
      [] OTHER -> s

\* the Program handed to the DeadCodeEliminator when it is the last pass
DceInput ==
    IF passes = BothPasses THEN ConstantFolderOptimize(input) ELSE input

\* C3: DeadCodeEliminator.optimize returns its input without the let
\* statements and function declarations whose name is not marked used
\* (at top level and inside kept function bodies, branches and blocks),
\* every other statement kept in order.
C3_RemovesExactlyUnusedDeclarations ==
    (Optimized(BothPasses) \/ Optimized(<<"DeadCodeEliminator">>)) =>
        ast = Program(PrunedList(DceInput.statements, 1,
                                 UsedNames(DceInput)
                                 \cup {NamePrint, NameConsole}))

\* a run in which one declaration was removed and another one kept
C3_Witness ==
    /\ Optimized(<<"DeadCodeEliminator">>)
    /\ \E i, j \in DOMAIN input.statements :
        /\ input.statements[i].kind = "LetStatement"
        /\ input.statements[j].kind = "LetStatement"
        /\ ast.statements = <<input.statements[j]>>

Zero == NumberLiteral(FInt(0))

Two == NumberLiteral(FInt(2))

RECURSIVE DividesByZero(_)
\* the expression contains a division whose right operand is, or folds to,
\* the number 0
DividesByZero(e) ==
    CASE e.kind = "BinaryOp" ->
            \/ e.operator = OpDiv /\ FoldExpr(e.right) = Zero
            \/ DividesByZero(e.left)
            \/ DividesByZero(e.right)
      [] e.kind = "UnaryOp" -> DividesByZero(e.operand)
      [] OTHER -> FALSE

RECURSIVE KeepsDivisionsByZero(_, _)
\* f, the folded form of e, still has every operator node of e that lies on
\* the way to a division by zero
KeepsDivisionsByZero(e, f) ==
    DividesByZero(e) =>
        /\ f.kind = e.kind
        /\ f.operator = e.operator
        /\ IF e.kind = "BinaryOp"
           THEN /\ KeepsDivisionsByZero(e.left, f.left)
                /\ KeepsDivisionsByZero(e.right, f.right)
           ELSE KeepsDivisionsByZero(e.operand, f.operand)

\* the run folded constants in a Program that is one expression statement
FoldedExpression ==
    /\ pc = "done"
    /\ entry = "optimize"
    /\ Len(passes) > 0
    /\ passes[1] = "ConstantFolder"
    /\ Len(input.statements) = 1
    /\ input.statements[1].kind = "ExpressionStatement"

\* C4: folding never raises, and a division whose right operand is or folds
\* to 0, and every constant expression around it, is still a BinaryOp with
\* the same operator afterwards.
C4_DivisionByZeroStaysUnfolded ==
    /\ (entry = "optimize" /\ pc = "raised") => error.kind # "ZeroDivisionError"
    /\ FoldedExpression =>
          /\ Len(ast.statements) = 1
          /\ ast.statements[1].kind = "ExpressionStatement"
          /\ KeepsDivisionsByZero(input.statements[1].expression,
                                  ast.statements[1].expression)

\* 1 / (2 - 2) was folded to 1 / 0 and no further
C4_Witness ==
    /\ FoldedExpression
    /\ input.statements[1].expression =
           BinaryOp(One, OpDiv, BinaryOp(Two, OpSub, Two))
    /\ ast.statements[1].expression = BinaryOp(One, OpDiv, Zero)

\* C5: folding the Program that ConstantFolder.optimize returned gives that
\* same Program again.
C5_FoldingIsIdempotent ==
    Optimized(<<"ConstantFolder">>) => ConstantFolderOptimize(ast) = ast

\* a run in which folding changed the Program
C5_Witness == Optimized(<<"ConstantFolder">>) /\ ast # input

\* the example of the pass order: x is used only in a branch folding removes
DeadAfterFolding ==
    Program(<<LetStatement(NameX, One),
              IfStatement(BoolLiteral(FALSE), Block(<<PrintX>>), None)>>)

\* C6: with both passes, optimize returns what dead-code elimination makes
\* of the folded input, so a declaration used only in a branch that folding
\* removes is eliminated.
C6_FoldingRunsBeforeElimination ==
    (pc = "done" /\ entry = "optimize" /\ args.enable_constant_folding
     /\ args.enable_dead_code) =>
        /\ ast = DeadCodeEliminatorOptimize(ConstantFolderOptimize(input)).result
        /\ input = DeadAfterFolding => ast = Program(<<Block(<<>>)>>)

\* the example was optimized with both passes
C6_Witness ==
    /\ Optimized(BothPasses)
    /\ input = DeadAfterFolding
    /\ ast = Program(<<Block(<<>>)>>)

\* C7: Optimizer.optimize never raises, and what it returns is a Program.
C7_OptimizeNeverRaises ==
    entry = "optimize" =>
        /\ pc # "raised"
        /\ pc = "done" => ast.kind = "Program"

\* optimize returned for a division by zero and for an unknown operator
C7_Witness ==
    /\ Optimized(BothPasses)
    /\ input \in {Program(<<ExpressionStatement(BinaryOp(One, op, Zero))>>) :
                     op \in {OpDiv, <<"%">>}}

\* C8: CodeGenerator.generate never raises on a Program that came from
\* Parser.parse, optimized or not.
C8_GenerateNeverRaises == ~(pc = "raised" /\ LastEvent = "generate")

\* the stage events of a successful compile_source, in order
StageEvents(optimize) ==
    <<"tokenize", "tokenize.return", "parse", "parse.return">>
    \o (IF optimize THEN <<"optimize", "optimize.return">> ELSE <<>>)
    \o <<"generate", "generate.return">>

IsPrefix(s, t) == Len(s) <= Len(t) /\ \A i \in DOMAIN s : s[i] = t[i]

\* tokenize or parse was called and did not return
FrontEndFailed ==
    pc \in {"raised", "done"} /\ LastEvent \in {"tokenize", "parse"}

\* C9: the stages of compile_source start in the order tokenize, parse,
\* optimize (if enabled), generate, each after the one before it returned;
\* when tokenize or parse fails no later stage runs, there is no output
\* text, and compile_command writes no file and returns 1.
C9_StagesRunInOrder ==
    /\ IsPrefix(trace, StageEvents(~args.no_optimize))
    /\ FrontEndFailed =>
          /\ js_code = None
          /\ outFile = None
          /\ stdout = None
          /\ pc = "done" => exitStatus = 1

\* compile_command returned after the parser failed
C9_Witness ==
    /\ pc = "done"
    /\ LastEvent = "parse"
    /\ args.output
    /\ exitStatus = 1

\* the text is empty, or blanks only, or one comment
IsBlankSource(src) ==
    \/ \A i \in DOMAIN src : src[i] \in {" ", "\t", "\r", "\n"}
    \/ /\ Len(src) >= 2
       /\ src[1] = "/"
       /\ src[2] = "/"
       /\ \A i \in DOMAIN src : src[i] # "\n"

\* C10: what Lexer.tokenize returns ends with an end-of-input token and has
\* no other one; for an empty, blank or comment-only text it is that token
\* alone.
C10_ExactlyOneEof ==
    (entry = "tokenize" /\ pc = "done") =>
        /\ Len(tokens) >= 1
        /\ \A i \in DOMAIN tokens : tokens[i].type = "EOF" <=> i = Len(tokens)
        /\ IsBlankSource(source) => Len(tokens) = 1

\* tokenize returned for a text that is one comment
C10_Witness ==
    /\ entry = "tokenize"
    /\ pc = "done"
    /\ source = <<"/", "/", " ", "a">>
    /\ Len(tokens) = 1

\* the escape form of one character
EscapeChar(c) ==
    CASE c = "\\" -> <<"\\", "\\">>
      [] c = "\"" -> <<"\\", "\"">>
      [] c = "\n" -> <<"\\", "n">>
      [] OTHER -> <<c>>

RECURSIVE EscapeEach(_)
\* a text escaped character by character
EscapeEach(text) ==
    IF Len(text) = 0 THEN <<>>
    ELSE EscapeChar(Head(text)) \o EscapeEach(Tail(text))

RECURSIVE Unescape(_)
\* what a string-literal scanner that knows the three escapes reads back
Unescape(text) ==
    IF Len(text) = 0 THEN <<>>
    ELSE IF Head(text) = "\\" /\ Len(text) >= 2
    THEN <<IF text[2] = "n" THEN "\n" ELSE text[2]>>
         \o Unescape(SubSeq(text, 3, Len(text)))
    ELSE <<Head(text)>> \o Unescape(Tail(text))

\* generate returned the text of a program that is one string literal
GeneratedString ==
    /\ pc = "done"
    /\ entry = "generate"
    /\ input \in StringPrograms

\* the value of that string literal
StringValue == input.statements[1].expression.value

\* the generated text without the quotes around it and the semicolon
BetweenQuotes(text) == SubSeq(text, 2, Len(text) - 2)

\* C11: the text generated for a string literal is its value escaped
\* character by character between two double quotes, and unescaping what is
\* between the quotes gives the value back.
C11_StringEscapeRoundTrip ==
    GeneratedString =>
        /\ js_code.text = <<"\"">> \o EscapeEach(StringValue) \o <<"\"", ";">>
        /\ Unescape(BetweenQuotes(js_code.text)) = StringValue

\* a string made of a backslash, the letter n and a quote was generated
C11_Witness ==
    /\ GeneratedString
    /\ StringValue = <<"\\", "n", "\"">>
    /\ js_code.text = <<"\"", "\\", "\\", "n", "\\", "\"", "\"", ";">>

\* the texts of the sources that are one expression
ExprTexts == {JoinWords(ws) : ws \in ExprSources}

BinaryOperatorTypes ==
    {"PLUS", "MINUS", "STAR", "SLASH", "LT", "GT", "LTEQ", "GTEQ", "EQEQ",
     "NEQ"}

\* the precedence level of a binary operator, lowest first
PrecedenceLevel(type) ==
    CASE type \in {"EQEQ", "NEQ"} -> 1
      [] type \in {"LT", "GT", "LTEQ", "GTEQ"} -> 2
      [] type \in {"PLUS", "MINUS"} -> 3
      [] type \in {"STAR", "SLASH"} -> 4

\* how many parentheses are open before the i-th token
ParenDepth(toks, i) ==
    Cardinality({j \in 1..(i - 1) : toks[j].type = "LPAREN"})
    - Cardinality({j \in 1..(i - 1) : toks[j].type = "RPAREN"})

\* the places of the binary operators outside every parenthesis: an
\* operator is binary when the token before it ends an operand
BinaryPlaces(toks) ==
    {i \in 2..Len(toks) :
        /\ toks[i].type \in BinaryOperatorTypes
        /\ toks[i - 1].type \in {"IDENT", "NUMBER", "RPAREN"}
        /\ ParenDepth(toks, i) = 0}

\* the lowest precedence level among those operators
LowestLevel(toks) ==
    CHOOSE l \in 1..4 :
        /\ \E i \in BinaryPlaces(toks) : PrecedenceLevel(toks[i].type) = l
        /\ \A i \in BinaryPlaces(toks) : PrecedenceLevel(toks[i].type) >= l

\* the last operator of the lowest level: the root of the tree
RootPlace(toks) ==
    CHOOSE i \in BinaryPlaces(toks) :
        /\ PrecedenceLevel(toks[i].type) = LowestLevel(toks)
        /\ \A j \in BinaryPlaces(toks) :
              PrecedenceLevel(toks[j].type) = LowestLevel(toks) => j <= i

\* the parenthesis that the closing parenthesis at the end belongs to
LastOpening(toks) ==
    CHOOSE i \in 1..Len(toks) :
        /\ toks[i].type = "LPAREN"
        /\ ParenDepth(toks, i) = 0
        /\ \A j \in (i + 1)..Len(toks) :
              toks[j].type = "LPAREN" => ParenDepth(toks, j) > 0

RECURSIVE PrecedenceTree(_)
\* the tree the precedence order gives to the tokens of one expression
PrecedenceTree(toks) ==
    IF BinaryPlaces(toks) # {}
    THEN BinaryOp(PrecedenceTree(SubSeq(toks, 1, RootPlace(toks) - 1)),
                  toks[RootPlace(toks)].value,
                  PrecedenceTree(SubSeq(toks, RootPlace(toks) + 1, Len(toks))))
    ELSE IF toks[1].type = "MINUS"
    THEN UnaryOp(toks[1].value, PrecedenceTree(Tail(toks)))
    ELSE IF Len(toks) = 1
    THEN (IF toks[1].type = "NUMBER"
          THEN NumberLiteral(PyFloat(toks[1].value).value)
          ELSE Identifier(toks[1].value))
    ELSE IF LastOpening(toks) = 1
    THEN PrecedenceTree(SubSeq(toks, 2, Len(toks) - 1))
    ELSE CallExpression(
             PrecedenceTree(SubSeq(toks, 1, LastOpening(toks) - 1)),
             IF LastOpening(toks) + 1 = Len(toks) THEN <<>>
             ELSE <<PrecedenceTree(SubSeq(toks, LastOpening(toks) + 1,
                                          Len(toks) - 1))>>)

\* Parser.parse returned the Program of a source that is one expression
ParsedExpression ==
    /\ pc = "done"
    /\ entry = "parse"
    /\ source \in ExprTexts

\* the tokens without the end-of-input token
ExpressionTokens == SubSeq(tokens, 1, Len(tokens) - 1)

\* C12: the Program parsed from one expression is one expression statement
\* whose tree follows the precedence order equality < comparison < additive
\* < multiplicative < unary minus < call, equal levels grouped to the left.
C12_PrecedenceAndLeftAssociativity ==
    ParsedExpression =>
        ast = Program(<<ExpressionStatement(PrecedenceTree(ExpressionTokens))>>)

\* `a < b == c > d` was parsed, with == at the root
C12_Witness ==
    /\ ParsedExpression
    /\ source = JoinWords(<<"a", "<", "b", "==", "c", ">", "d">>)
    /\ ast.statements[1].expression.operator = OpEq
    /\ ast.statements[1].expression.left.operator = OpLt
    /\ ast.statements[1].expression.right.operator = OpGt

\* the line of the i-th character: 1 + the newlines before it
LineOf(src, i) == 1 + Cardinality({j \in 1..(i - 1) : src[j] = "\n"})

\* the place of the last newline before the i-th character, 0 if none
LastNewlineBefore(src, i) ==
    IF \E j \in 1..(i - 1) : src[j] = "\n"
    THEN CHOOSE j \in 1..(i - 1) :
             /\ src[j] = "\n"
             /\ \A k \in (j + 1)..(i - 1) : src[k] # "\n"
    ELSE 0

\* the column of the i-th character: 1 + the characters since that newline
ColumnOf(src, i) == i - LastNewlineBefore(src, i)

\* tokenize failed with a LexerError; pos, line and column are where the
\* scan stopped
LexFailed == pc = "raised" /\ error.kind = "LexerError"

UnterminatedString == error.message = <<"Unterminated string">>

\* the error names the character read last, the pos-th, and its position
UnexpectedCharacterAtIt ==
    /\ error.message = <<"Unexpected character: ", source[pos]>>
    /\ error.line = LineOf(source, pos)
    /\ error.column = ColumnOf(source, pos)

\* the quote that opened the string the scan was in
OpeningQuote ==
    CHOOSE q \in 1..pos :
        /\ source[q] = "\""
        /\ \A k \in (q + 1)..pos : source[k] # "\""

\* C13 as stated: a LexerError carries the position of the character at
\* which scanning stopped: the unexpected character, or the newline or end
\* of input at which an unterminated string breaks off; no token is returned.
C13_ErrorWhereScanningStopped ==
    LexFailed =>
        /\ tokens = <<>>
        /\ IF UnterminatedString
           THEN /\ error.line = LineOf(source, pos + 1)
                /\ error.column = ColumnOf(source, pos + 1)
           ELSE UnexpectedCharacterAtIt

\* C13 as amended: a LexerError for an unexpected character carries the
\* position of that character, a LexerError for an unterminated string the
\* position of the quote that opens the string; no token is returned.
C13_ErrorAtOffendingCharacter ==
    LexFailed =>
        /\ tokens = <<>>
        /\ IF UnterminatedString
           THEN /\ error.line = LineOf(source, OpeningQuote)
                /\ error.column = ColumnOf(source, OpeningQuote)
                /\ pos = Len(source) \/ source[pos + 1] = "\n"
           ELSE UnexpectedCharacterAtIt

\* a string opened on line 2 broke off, and tokens were scanned before it
C13_Witness ==
    /\ LexFailed
    /\ UnterminatedString
    /\ source = <<"a", "\n", "\"", "a">>
    /\ error.line = 2
    /\ error.column = 1
    /\ Len(lexTokens) = 1

\* the place in the text that has this line and column, 0 if there is none
IndexAt(src, l, c) ==
    IF \E i \in 1..(Len(src) + 1) : LineOf(src, i) = l /\ ColumnOf(src, i) = c
    THEN CHOOSE i \in 1..(Len(src) + 1) :
             LineOf(src, i) = l /\ ColumnOf(src, i) = c
    ELSE 0

\* the place the k-th token scanned so far says it starts at
TokenIndex(k) == IndexAt(source, lexTokens[k].line, lexTokens[k].column)

\* the number of source characters a token spans
TokenWidth(t) ==
    IF t.type = "STRING" THEN Len(t.value) + 2 ELSE Len(t.value)

\* the characters of the token stand in the text from the i-th on
TokenTextAt(src, t, i) ==
    /\ i >= 1
    /\ i + TokenWidth(t) - 1 <= Len(src)
    /\ IF t.type = "STRING"
       THEN /\ src[i] = "\""
            /\ SubSeq(src, i + 1, i + Len(t.value)) = t.value
            /\ src[i + Len(t.value) + 1] = "\""
       ELSE SubSeq(src, i, i + Len(t.value) - 1) = t.value

\* C14: the line and column of every token are those of the place in the
\* text where its characters stand, each token after the end of the one
\* before it, and the end-of-input token has the position just past the
\* last character.
C14_TokenPositions ==
    /\ \A k \in DOMAIN lexTokens :
          /\ lexTokens[k].line >= 1
          /\ lexTokens[k].column >= 1
          /\ TokenTextAt(source, lexTokens[k], TokenIndex(k))
          /\ k > 1 => TokenIndex(k) >= TokenIndex(k - 1)
                                      + TokenWidth(lexTokens[k - 1])
    /\ (entry = "tokenize" /\ pc = "done") =>
          /\ tokens[Len(tokens)].line = LineOf(source, Len(source) + 1)
          /\ tokens[Len(tokens)].column = ColumnOf(source, Len(source) + 1)

\* a token on the second line, after a tab and a carriage return
C14_Witness ==
    /\ entry = "tokenize"
    /\ pc = "done"
    /\ source = <<"\n", "\t", "\r", "a">>
    /\ tokens[1] = Token("IDENT", <<"a">>, 2, 3)
    /\ tokens[2] = Token("EOF", <<>>, 2, 4)

IsNumberChar(c) == IsDigit(c) \/ c = "."

\* the end of the longest run of digits and dots that starts at the i-th
\* character
RunEnd(src, i) ==
    CHOOSE k \in i..Len(src) :
        /\ \A j \in i..k : IsNumberChar(src[j])
        /\ k = Len(src) \/ ~IsNumberChar(src[k + 1])

\* the k-th token scanned so far is a NUMBER that spans the i-th character
NumberTokenOver(k, i) ==
    /\ lexTokens[k].type = "NUMBER"
    /\ TokenIndex(k) <= i
    /\ i < TokenIndex(k) + TokenWidth(lexTokens[k])

\* tokenize returned for a text without strings and comments
LexedPlainText ==
    /\ entry = "tokenize"
    /\ pc = "done"
    /\ \A i \in DOMAIN source : source[i] \notin {"\"", "/"}

ClosesOnLine(src, i) ==
    \E q \in (i + 1)..Len(src) :
        /\ src[q] = "\""
        /\ \A j \in (i + 1)..(q - 1) : src[j] # "\n"

\* the first quote after the i-th character
FirstQuoteAfter(src, i) ==
    CHOOSE q \in (i + 1)..Len(src) :
        /\ src[q] = "\""
        /\ \A j \in (i + 1)..(q - 1) : src[j] # "\""

\* the raw characters between the i-th character and the first quote after
RawString(src, i) == SubSeq(src, i + 1, FirstQuoteAfter(src, i) - 1)

\* the i-th character is the first or the last of the k-th token
TokenEdge(k, i) ==
    \/ TokenIndex(k) = i
    \/ TokenIndex(k) + TokenWidth(lexTokens[k]) - 1 = i

\* C16: a STRING token opens at a quote and holds the raw characters up to
\* the first quote after it, whatever stands before that quote; a text that
\* opens a string yields that token if the quote comes before any newline,
\* and otherwise tokenize fails with "Unterminated string" and returns no
\* token; when tokenize returns, every quote outside a comment opens or
\* closes a STRING token.
C16_StringEndsAtFirstQuote ==
    /\ \A k \in DOMAIN lexTokens :
          lexTokens[k].type = "STRING" =>
              /\ source[TokenIndex(k)] = "\""
              /\ ClosesOnLine(source, TokenIndex(k))
              /\ lexTokens[k].value = RawString(source, TokenIndex(k))
    /\ (entry = "tokenize" /\ Len(source) > 0 /\ source[1] = "\"") =>
          IF ClosesOnLine(source, 1)
          THEN /\ pc = "raised" => Len(lexTokens) > 0
               /\ Len(lexTokens) > 0 =>
                     lexTokens[1] = Token("STRING", RawString(source, 1), 1, 1)
          ELSE /\ pc # "done"
               /\ pc = "raised" =>
                     /\ error.kind = "LexerError"
                     /\ UnterminatedString
                     /\ lexTokens = <<>>
                     /\ tokens = <<>>
    /\ (entry = "tokenize" /\ pc = "done"
          /\ \A i \in DOMAIN source : source[i] # "/") =>
          \A i \in DOMAIN source :
              source[i] = "\"" =>
                  \E k \in DOMAIN lexTokens :
                      lexTokens[k].type = "STRING" /\ TokenEdge(k, i)

\* the string `\` ended at the quote after the backslash
C16_Witness ==
    /\ entry = "tokenize"
    /\ pc = "done"
    /\ source = <<"\"", "\\", "\"", "a">>
    /\ tokens[1] = Token("STRING", <<"\\">>, 1, 1)
    /\ tokens[2] = Token("IDENT", <<"a">>, 1, 4)

\* how often a pattern occurs in a text
CountSub(text, pat) ==
    Cardinality({i \in 1..(Len(text) - Len(pat) + 1) :
                    SubSeq(text, i, i + Len(pat) - 1) = pat})

IsPrint(name) == IF name = NamePrint THEN 1 ELSE 0

RECURSIVE PrintCallees(_), PrintCalleesAll(_, _)
\* the number of calls in a tree whose callee is the identifier print
PrintCallees(node) ==
    CASE node.kind = "BinaryOp" ->
            PrintCallees(node.left) + PrintCallees(node.right)
      [] node.kind = "UnaryOp" -> PrintCallees(node.operand)
      [] node.kind = "CallExpression" ->
            (IF node.callee = Identifier(NamePrint) THEN 1 ELSE 0)
            + PrintCallees(node.callee) + PrintCalleesAll(node.arguments, 1)
      [] node.kind = "LetStatement" -> PrintCallees(node.value)
      [] node.kind = "ReturnStatement" -> PrintCallees(node.value)
      [] node.kind = "ExpressionStatement" -> PrintCallees(node.expression)
      [] node.kind \in {"Block", "Program"} ->
            PrintCalleesAll(node.statements, 1)
      [] node.kind = "IfStatement" ->
            PrintCallees(node.condition) + PrintCallees(node.then_branch)
            + PrintCallees(node.else_branch)
      [] node.kind = "FnDeclaration" -> PrintCallees(node.body)
      [] OTHER -> 0

PrintCalleesAll(nodes, i) ==
    IF i > Len(nodes) THEN 0
    ELSE PrintCallees(nodes[i]) + PrintCalleesAll(nodes, i + 1)

RECURSIVE PrintNames(_), PrintNamesAll(_, _), PrintParams(_, _)
\* the number of places in a tree where the name print stands and is not
\* the callee of a call: identifiers, declared names and parameters
PrintNames(node) ==
    CASE node.kind = "Identifier" -> IsPrint(node.name)
      [] node.kind = "BinaryOp" ->
            PrintNames(node.left) + PrintNames(node.right)
      [] node.kind = "UnaryOp" -> PrintNames(node.operand)
      [] node.kind = "CallExpression" ->
            (IF node.callee = Identifier(NamePrint) THEN 0
             ELSE PrintNames(node.callee))
            + PrintNamesAll(node.arguments, 1)
      [] node.kind = "LetStatement" ->
            IsPrint(node.name) + PrintNames(node.value)
      [] node.kind = "ReturnStatement" -> PrintNames(node.value)
      [] node.kind = "ExpressionStatement" -> PrintNames(node.expression)
      [] node.kind \in {"Block", "Program"} ->
            PrintNamesAll(node.statements, 1)
      [] node.kind = "IfStatement" ->
            PrintNames(node.condition) + PrintNames(node.then_branch)
            + PrintNames(node.else_branch)
      [] node.kind = "FnDeclaration" ->
            IsPrint(node.name) + PrintParams(node.params, 1)
            + PrintNames(node.body)
      [] OTHER -> 0

PrintNamesAll(nodes, i) ==
    IF i > Len(nodes) THEN 0
    ELSE PrintNames(nodes[i]) + PrintNamesAll(nodes, i + 1)

PrintParams(params, i) ==
    IF i > Len(params) THEN 0
    ELSE IsPrint(params[i]) + PrintParams(params, i + 1)

\* generate returned the text of a program around the name print
GeneratedPrints ==
    /\ pc = "done"
    /\ entry = "generate"
    /\ input \in PrintPrograms

ConsoleLogCall == <<"c", "o", "n", "s", "o", "l", "e", ".", "l", "o", "g", "(">>

\* C17: the generated text has one `console.log(` for every call whose
\* callee is the identifier print, and one `print` for every other place
\* where the name print stands in the program: as an identifier that is not
\* a callee, as a declared variable or function, as a parameter.
C17_PrintCallsBecomeConsoleLog ==
    GeneratedPrints =>
        /\ CountSub(js_code.text, ConsoleLogCall) = PrintCallees(input)
        /\ CountSub(js_code.text, NamePrint) = PrintNames(input)

\* a program that declares a function print and calls print
C17_Witness ==
    /\ GeneratedPrints
    /\ input = Program(<<FnDeclaration(NamePrint, <<NameX>>,
                                       Block(<<ReturnStatement(
                                                   Identifier(NameX))>>)),
                         PrintX>>)
    /\ CountSub(js_code.text, ConsoleLogCall) = 1
    /\ CountSub(js_code.text, <<"f", "u", "n", "c", "t", "i", "o", "n", " ", "p", "r", "i", "n", "t", "(">>) = 1

RECURSIVE FreshOptimize(_, _, _)
\* what the passes from the i-th on return for a Program when every pass
\* is an instance that was never used
FreshOptimize(program, ps, i) ==
    IF i > Len(ps) THEN program
    ELSE IF ps[i] = "ConstantFolder"
    THEN FreshOptimize(ConstantFolderOptimize(program), ps, i + 1)
    ELSE FreshOptimize(DeadCodeEliminatorOptimize(program).result, ps, i + 1)

\* C19: whatever calls were made on the instance before, generate returns
\* for a Program the text a new CodeGenerator returns for it, and optimize
\* returns the Program a new Optimizer with the same passes returns for it.
C19_CallsAreIndependent ==
    /\ (pc = "done" /\ entry = "generate") => js_code = Generate(input, 0)
    /\ (pc = "done" /\ entry = "optimize") =>
          ast = FreshOptimize(input, passes, 1)

\* the second call on an Optimizer that eliminates dead code returned, and
\* it removed a declaration of x
C19_Witness ==
    /\ pc = "done"
    /\ entry = "optimize"
    /\ Len(trace) = 2 * MaxCalls
    /\ passes = <<"DeadCodeEliminator">>
    /\ input = Program(<<LetStatement(NameX, One)>>)
    /\ ast = Program(<<>>)
    /\ usages # <<>>

IsDeclaration(node) == node.kind \in {"LetStatement", "FnDeclaration"}

RECURSIVE OnlyLeavesOut(_, _), OnlyLeavesOutAll(_, _)
\* t is the statement s with nothing changed but declarations left out of
\* the blocks inside it
OnlyLeavesOut(s, t) ==
    IF s.kind # t.kind THEN FALSE
    ELSE CASE s.kind = "Block" -> OnlyLeavesOutAll(s.statements, t.statements)
           [] s.kind = "IfStatement" ->
                /\ s.condition = t.condition
                /\ OnlyLeavesOut(s.then_branch, t.then_branch)
                /\ OnlyLeavesOut(s.else_branch, t.else_branch)
           [] s.kind = "FnDeclaration" ->
                /\ s.name = t.name
                /\ s.params = t.params
                /\ OnlyLeavesOut(s.body, t.body)
           [] OTHER -> s = t

\* the statements ts are the statements ss, in order, with some of the
\* declarations left out and every expression and if statement as it was
OnlyLeavesOutAll(ss, ts) ==
    IF ss = <<>> THEN ts = <<>>
    ELSE IF ts # <<>> /\ OnlyLeavesOut(Head(ss), Head(ts))
    THEN OnlyLeavesOutAll(Tail(ss), Tail(ts))
    ELSE IsDeclaration(Head(ss)) /\ OnlyLeavesOutAll(Tail(ss), ts)

RECURSIVE Declarations(_), DeclarationsAll(_, _)
\* the number of let statements and function declarations in a tree
Declarations(node) ==
    CASE node.kind \in {"Program", "Block"} ->
            DeclarationsAll(node.statements, 1)
      [] node.kind = "IfStatement" ->
            Declarations(node.then_branch) + Declarations(node.else_branch)
      [] node.kind = "FnDeclaration" -> 1 + Declarations(node.body)
      [] node.kind = "LetStatement" -> 1
      [] OTHER -> 0

DeclarationsAll(nodes, i) ==
    IF i > Len(nodes) THEN 0
    ELSE Declarations(nodes[i]) + DeclarationsAll(nodes, i + 1)

RECURSIVE KeepsDeclarations(_, _), KeepsDeclarationsAll(_, _, _)
\* t has every declaration of the statement s, at its place, apart from
\* those in a branch of an if statement that t has dropped
KeepsDeclarations(s, t) ==
    CASE s.kind = "Block" ->
            /\ t.kind = "Block"
            /\ Len(t.statements) = Len(s.statements)
            /\ KeepsDeclarationsAll(s.statements, t.statements, 1)
      [] s.kind = "IfStatement" ->
            \/ /\ t.kind = "IfStatement"
               /\ KeepsDeclarations(s.then_branch, t.then_branch)
               /\ KeepsDeclarations(s.else_branch, t.else_branch)
            \/ KeepsDeclarations(s.then_branch, t)
            \/ /\ s.else_branch.kind = "Block"
               /\ KeepsDeclarations(s.else_branch, t)
            \/ /\ s.else_branch.kind = "None"
               /\ t = Block(<<>>)
      [] s.kind = "FnDeclaration" ->
            /\ t.kind = "FnDeclaration"
            /\ t.name = s.name
            /\ t.params = s.params
            /\ KeepsDeclarations(s.body, t.body)
      [] s.kind = "LetStatement" ->
            t.kind = "LetStatement" /\ t.name = s.name
      [] OTHER -> t.kind = s.kind

KeepsDeclarationsAll(ss, ts, i) ==
    IF i > Len(ss) THEN TRUE
    ELSE KeepsDeclarations(ss[i], ts[i])
         /\ KeepsDeclarationsAll(ss, ts, i + 1)

OptimizeReturned == pc = "done" /\ entry = "optimize"

\* an Optimizer built with no argument runs both passes
BothOnByDefault ==
    (entry = "optimize" /\ pc # "call_optimize" /\ args = DefaultArgs) =>
        passes = BothPasses

\* without constant folding the result is the input with declarations left
\* out and nothing else changed
NothingFoldedWhenDisabled ==
    (OptimizeReturned /\ ~args.enable_constant_folding) =>
        OnlyLeavesOutAll(input.statements, ast.statements)

BothDisabledReturnsInput ==
    (OptimizeReturned /\ ~args.enable_constant_folding
                      /\ ~args.enable_dead_code) =>
        ast = input

RECURSIVE NestedCalls(_, _, _)
\* the first k argument lists applied one after the other, the first to
\* the primary expression and each next one to the call before it
NestedCalls(primary, lists, k) ==
    IF k = 0 THEN primary
    ELSE CallExpression(NestedCalls(primary, lists, k - 1), lists[k].nodes)

\* the text of every call chain with the calls it is to parse to
CallChainCases ==
    {[text |-> JoinWords(CallChainWords(chain)),
      calls |-> NestedCalls(chain.primary.node, chain.lists,
                            Len(chain.lists))] : chain \in CallChains}

\* C21: a primary expression followed by n argument lists parses to n
\* nested calls, the primary innermost and the k-th list the arguments of
\* the k-th call from the inside.
C21_CallChainsNest ==
    \A case \in CallChainCases :
        (entry = "parse" /\ pc \in {"done", "raised"}
                         /\ source = case.text) =>
            /\ pc = "done"
            /\ ast = Program(<<ExpressionStatement(case.calls)>>)

\* `foo()()()` was parsed to three calls around the identifier foo
C21_Witness ==
    /\ entry = "parse"
    /\ pc = "done"
    /\ source = JoinWords(<<"foo", "(", ")", "(", ")", "(", ")">>)
    /\ ast = Program(<<ExpressionStatement(
                 CallExpression(
                     CallExpression(
                         CallExpression(Identifier(<<"f", "o", "o">>), <<>>),
                         <<>>),
                     <<>>))>>)

\* the i-th top-level statement declares a name that no other top-level
\* statement refers to and that is not a built-in name
NeverReferencedElsewhere(program, i) ==
    /\ IsDeclaration(program.statements[i])
    /\ program.statements[i].name \notin {NamePrint, NameConsole}
    /\ \A j \in DOMAIN program.statements \ {i} :
          program.statements[i].name \notin UsedNames(program.statements[j])

\* the program has a top-level declaration of the kind and name of d
Declares(program, d) ==
    \E k \in DOMAIN program.statements :
        /\ program.statements[k].kind = d.kind
        /\ program.statements[k].name = d.name

RECURSIVE DeclaredNames(_)
\* the names of the let statements and function declarations of a tree
DeclaredNames(node) ==
    CASE node.kind \in {"Program", "Block"} ->
            UNION {DeclaredNames(node.statements[i]) :
                      i \in DOMAIN node.statements}
      [] node.kind = "IfStatement" ->
            DeclaredNames(node.then_branch)
            \cup DeclaredNames(node.else_branch)
      [] node.kind = "FnDeclaration" ->
            {node.name} \cup DeclaredNames(node.body)
      [] node.kind = "LetStatement" -> {node.name}
      [] OTHER -> {}

\* the i-th top-level statement is a declaration whose own initializer or
\* body refers to the declared name
RefersToItself(program, i) ==
    /\ IsDeclaration(program.statements[i])
    /\ program.statements[i].name \in
          UsedNames(IF program.statements[i].kind = "LetStatement"
                    THEN program.statements[i].value
                    ELSE program.statements[i].body)

LineBreaks(text) == {0} \cup {i \in 1..Len(text) : text[i] = "\n"}

\* the line that starts after the place b: up to the next newline or the end
LineAfter(text, b) ==
    SubSeq(text, b + 1,
           IF \E c \in LineBreaks(text) : c > b
           THEN (CHOOSE c \in LineBreaks(text) :
                    /\ c > b
                    /\ \A e \in LineBreaks(text) : e > b => c <= e) - 1
           ELSE Len(text))

\* text.split("\n"); the empty text has no line
Lines(text) ==
    IF text = <<>> THEN <<>>
    ELSE [k \in 1..Cardinality(LineBreaks(text)) |->
            LineAfter(text,
                      CHOOSE b \in LineBreaks(text) :
                          Cardinality({c \in LineBreaks(text) : c < b}) = k - 1)]

\* the number of spaces a text starts with
LeadingSpaces(text) ==
    Cardinality({i \in 1..Len(text) : \A j \in 1..i : text[j] = " "})

\* a body without lines is printed as one line that holds nothing, marked
\* here by a negative depth
OrBlank(depths) == IF depths = <<>> THEN <<-1>> ELSE depths

RECURSIVE LineDepths(_, _, _), LineDepthsAll(_, _, _, _)
\* for each line a statement is printed on, the number of function bodies
\* and if/else branches around it, a bare block counting for `bare` levels
LineDepths(node, d, bare) ==
    CASE node.kind = "Block" ->
            LineDepthsAll(node.statements, 1, d + bare, bare)
      [] node.kind = "IfStatement" ->
            <<d>>
            \o OrBlank(LineDepthsAll(node.then_branch.statements, 1, d + 1,
                                     bare))
            \o <<d>>
            \o (IF node.else_branch.kind = "None" THEN <<>>
                ELSE OrBlank(LineDepthsAll(node.else_branch.statements, 1,
                                           d + 1, bare))
                     \o <<d>>)
      [] node.kind = "FnDeclaration" ->
            <<d>>
            \o OrBlank(LineDepthsAll(node.body.statements, 1, d + 1, bare))
            \o <<d>>
      [] OTHER -> <<d>>

LineDepthsAll(nodes, i, d, bare) ==
    IF i > Len(nodes) THEN <<>>
    ELSE LineDepths(nodes[i], d, bare) \o LineDepthsAll(nodes, i + 1, d, bare)

\* every line starts with as many indent units as its depth says
IndentedAs(lines, depths) ==
    /\ Len(lines) = Len(depths)
    /\ \A i \in DOMAIN lines :
          IF depths[i] < 0 THEN lines[i] = <<>>
          ELSE LeadingSpaces(lines[i]) = Len(indent_str) * depths[i]

Generated == pc = "done" /\ entry = "generate"

\* C23 as stated: every statement inside d enclosing function bodies,
\* if/else branches and bare blocks starts with exactly d indent units,
\* a top-level statement with none, and a closing brace is indented like
\* the line that opened it.
C23_IndentCountsBareBlocks ==
    Generated =>
        IndentedAs(Lines(js_code.text), LineDepthsAll(input.statements, 1, 0, 1))

\* C23 (amended): every statement inside d enclosing function bodies and
\* if/else branches starts with exactly d indent units, a top-level
\* statement with none, and a closing brace is indented like the line that
\* opened it; a bare block adds no level.
C23_IndentCountsBodiesAndBranches ==
    Generated =>
        IndentedAs(Lines(js_code.text), LineDepthsAll(input.statements, 1, 0, 0))

\* `fn f() { { print(x) } }` was generated: the call sits inside a bare
\* block inside the function body and starts with one indent unit
C23_Witness ==
    /\ Generated
    /\ input = Program(<<FnDeclaration(NameF, <<>>,
                                       Block(<<Block(<<PrintX>>)>>))>>)
    /\ Len(Lines(js_code.text)) = 3
    /\ LeadingSpaces(Lines(js_code.text)[2]) = 2

RECURSIVE DeclarationsNamed(_, _), DeclarationsNamedAll(_, _, _)
\* the number of let statements and function declarations of a name in a
\* tree
DeclarationsNamed(node, name) ==
    CASE node.kind \in {"Program", "Block"} ->
            DeclarationsNamedAll(node.statements, name, 1)
      [] node.kind = "IfStatement" ->
            DeclarationsNamed(node.then_branch, name)
            + DeclarationsNamed(node.else_branch, name)
      [] node.kind = "FnDeclaration" ->
            (IF node.name = name THEN 1 ELSE 0)
            + DeclarationsNamed(node.body, name)
      [] node.kind = "LetStatement" -> IF node.name = name THEN 1 ELSE 0
      [] OTHER -> 0

DeclarationsNamedAll(nodes, name, i) ==
    IF i > Len(nodes) THEN 0
    ELSE DeclarationsNamed(nodes[i], name)
         + DeclarationsNamedAll(nodes, name, i + 1)

RECURSIVE Retains(_, _, _), RetainsAll(_, _, _)
\* t is what is left of the statement s, with every declaration inside it
\* whose name is among `used` still at its place
Retains(s, t, used) ==
    IF s.kind # t.kind THEN FALSE
    ELSE CASE s.kind = "Block" ->
                RetainsAll(s.statements, t.statements, used)
           [] s.kind = "IfStatement" ->
                /\ Retains(s.then_branch, t.then_branch, used)
                /\ (s.else_branch.kind = "None" \/
                      Retains(s.else_branch, t.else_branch, used))
           [] s.kind = "FnDeclaration" ->
                /\ t.name = s.name
                /\ Retains(s.body, t.body, used)
           [] s.kind = "LetStatement" -> t = s
           [] OTHER -> TRUE

\* ts is what is left of the statements ss: nothing but declarations whose
\* name is not among `used` is missing
RetainsAll(ss, ts, used) ==
    IF ss = <<>> THEN ts = <<>>
    ELSE \/ /\ ts # <<>>
            /\ Retains(Head(ss), Head(ts), used)
            /\ RetainsAll(Tail(ss), Tail(ts), used)
         \/ /\ IsDeclaration(Head(ss))
            /\ Head(ss).name \notin used
            /\ RetainsAll(Tail(ss), ts, used)

\* C24 as stated: usage is decided per name for the whole program; a let
\* or function declaration whose name is an identifier anywhere in the
\* program, or a parameter of any function, is retained wherever it stands.
C24_UsedNamesKeepEveryDeclaration ==
    Optimized(<<"DeadCodeEliminator">>) =>
        \A name \in UsedNames(input) :
            DeclarationsNamed(ast, name) = DeclarationsNamed(input, name)

\* C24 (amended): usage is decided per name for the whole program; a let
\* or function declaration whose name is an identifier anywhere in the
\* program, or a parameter of any function, is retained at its place
\* unless it stands inside a function declaration that is itself removed.
C24_UsedNamesKeepDeclarations ==
    Optimized(<<"DeadCodeEliminator">>) =>
        RetainsAll(input.statements, ast.statements, UsedNames(input))

\* `let y = x` stays because y is a parameter of f, though f itself, never
\* called, is removed
C24_Witness ==
    /\ Optimized(<<"DeadCodeEliminator">>)
    /\ input = Program(<<LetStatement(NameY, Identifier(NameX)),
                         FnDeclaration(NameF, <<NameY>>,
                             Block(<<LetStatement(NameX, One),
                                     ReturnStatement(Identifier(NameX))>>))>>)
    /\ ast = Program(<<LetStatement(NameY, Identifier(NameX))>>)

ArithmeticOperators == {OpAdd, OpSub, OpMul, OpDiv}

ComparisonOperators == {OpLt, OpGt, OpLe, OpGe, OpEq, OpNe}

\* the operands and the operator are of the kinds that are folded: two
\* numbers under one of the ten operators, the divisor of / not zero, two
\* strings under +, two booleans under == or !=
Foldable(left, operator, right) ==
    \/ /\ left.kind = "NumberLiteral"
       /\ right.kind = "NumberLiteral"
       /\ operator \in ArithmeticOperators \cup ComparisonOperators
       /\ operator = OpDiv => right # Zero
    \/ /\ left.kind = "StringLiteral"
       /\ right.kind = "StringLiteral"
       /\ operator = OpAdd
    \/ /\ left.kind = "BoolLiteral"
       /\ right.kind = "BoolLiteral"
       /\ operator \in {OpEq, OpNe}

\* the kind of literal a folded operation gives
FoldedKind(left, operator) ==
    IF left.kind = "NumberLiteral" /\ operator \in ArithmeticOperators
    THEN "NumberLiteral"
    ELSE IF left.kind = "StringLiteral" THEN "StringLiteral"
    ELSE "BoolLiteral"

\* constant folding alone returned for a Program of one expression
\* statement over a binary operation
FoldedBinaryOp ==
    /\ Optimized(<<"ConstantFolder">>)
    /\ Len(input.statements) = 1
    /\ input.statements[1].kind = "ExpressionStatement"
    /\ input.statements[1].expression.kind = "BinaryOp"

\* the outcome for an operation whose folded operands are left and right
FoldsExactlyWhenFoldable(left, operator, right, outcome) ==
    IF Foldable(left, operator, right)
    THEN outcome.kind = FoldedKind(left, operator)
    ELSE outcome = BinaryOp(left, operator, right)

\* C25: a BinaryOp becomes a literal exactly when its folded operands are
\* two numbers under + - * / < > <= >= == != (the divisor of / not zero),
\* two strings under +, or two booleans under == or !=, arithmetic giving
\* a number and comparison a boolean; otherwise it stays a BinaryOp with
\* the same operator over the folded operands.
C25_FoldsExactlyLiteralPairs ==
    FoldedBinaryOp =>
        FoldsExactlyWhenFoldable(
            FoldExpr(input.statements[1].expression.left),
            input.statements[1].expression.operator,
            FoldExpr(input.statements[1].expression.right),
            ast.statements[1].expression)

\* `true < false` went through constant folding and stayed as it was
C25_Witness ==
    /\ FoldedBinaryOp
    /\ input.statements[1].expression =
          BinaryOp(BoolLiteral(TRUE), OpLt, BoolLiteral(FALSE))
    /\ ast = input

\* constant folding alone returned for a Program of one if statement
FoldedIf ==
    /\ Optimized(<<"ConstantFolder">>)
    /\ Len(input.statements) = 1
    /\ input.statements[1].kind = "IfStatement"

\* the else-branch of an if after folding, None when it has none
FoldedElse(s) ==
    IF s.else_branch.kind = "None" THEN None ELSE FoldBlock(s.else_branch)

\* what the if statement s is to become, its condition folding to c
IfOutcome(s, c) ==
    IF c.kind # "BoolLiteral"
    THEN IfStatement(c, FoldBlock(s.then_branch), FoldedElse(s))
    ELSE IF c.value THEN FoldBlock(s.then_branch)
    ELSE IF s.else_branch.kind # "None" THEN FoldBlock(s.else_branch)
    ELSE Block(<<>>)

\* C26: an if whose condition folds to a boolean literal becomes a Block,
\* the folded then-branch for true, the folded else-branch for false, the
\* empty Block for false without an else; any other if stays an
\* IfStatement over the folded condition and branches.
C26_IfFoldsOnBooleanCondition ==
    FoldedIf =>
        /\ ast.statements[1] =
              IfOutcome(input.statements[1],
                        FoldExpr(input.statements[1].condition))
        /\ ast.statements[1].kind \in {"Block", "IfStatement"}
        /\ ast.statements[1].kind = "Block" <=>
              FoldExpr(input.statements[1].condition).kind = "BoolLiteral"

\* `if (2 < 1) { 1 + 1 } else { if (true) { return 1 < 2 } }` became the
\* block of its else-branch, the inner if folded to a block as well
C26_Witness ==
    /\ FoldedIf
    /\ input.statements[1].condition = BinaryOp(Two, OpLt, One)
    /\ ast = Program(<<Block(<<Block(<<ReturnStatement(
                                         BoolLiteral(TRUE))>>)>>)>>)

\* the token types an expression can start with
ExpressionStarts ==
    {"TRUE", "FALSE", "NUMBER", "STRING", "IDENT", "LPAREN", "MINUS"}

\* the token types after which a return statement has no value
ReturnEnds == {"RBRACE", "EOF"}

\* Parser.parse is about to parse a statement that starts with `return`
AtReturn ==
    /\ entry = "parse"
    /\ pc = "parse"
    /\ tokens[parserPos + 1].type = "RETURN"

\* what parsing the statement at `return` leads to, by the token after it
ReturnStepOutcome ==
    AtReturn =>
        CASE tokens[parserPos + 2].type \in ReturnEnds ->
                /\ pc' = "parse"
                /\ parseStatements' =
                      Append(parseStatements, ReturnStatement(None))
                /\ parserPos' = parserPos + 1
          [] tokens[parserPos + 2].type \in ExpressionStarts ->
                pc' = "parse" =>
                    /\ Len(parseStatements') = Len(parseStatements) + 1
                    /\ parseStatements'[Len(parseStatements')].kind =
                          "ReturnStatement"
                    /\ parseStatements'[Len(parseStatements')].value.kind
                          # "None"
                    /\ parserPos' >= parserPos + 2
          [] OTHER ->
                /\ pc' = "raised"
                /\ error' = ParseError("Expected expression",
                                       tokens[parserPos + 2])

RECURSIVE ReturnsIn(_, _), ReturnsInAll(_, _, _)
\* the number of return statements in a tree, those with a value or those
\* without
ReturnsIn(node, valued) ==
    CASE node.kind \in {"Program", "Block"} ->
            ReturnsInAll(node.statements, valued, 1)
      [] node.kind = "IfStatement" ->
            ReturnsIn(node.then_branch, valued)
            + ReturnsIn(node.else_branch, valued)
      [] node.kind = "FnDeclaration" -> ReturnsIn(node.body, valued)
      [] node.kind = "ReturnStatement" ->
            IF (node.value.kind # "None") = valued THEN 1 ELSE 0
      [] OTHER -> 0

ReturnsInAll(nodes, valued, i) ==
    IF i > Len(nodes) THEN 0
    ELSE ReturnsIn(nodes[i], valued) + ReturnsInAll(nodes, valued, i + 1)

\* the number of `return` tokens followed, or not, by `}` or end of input
ReturnTokens(toks, ended) ==
    Cardinality({k \in 1..(Len(toks) - 1) :
                    /\ toks[k].type = "RETURN"
                    /\ (toks[k + 1].type \in ReturnEnds) = ended})

\* in a parsed Program the returns without a value are the `return` tokens
\* before `}` or end of input
ReturnValuesInProgram ==
    (entry = "parse" /\ pc = "done") =>
        /\ ReturnsIn(ast, FALSE) = ReturnTokens(tokens, TRUE)
        /\ ReturnsIn(ast, TRUE) = ReturnTokens(tokens, FALSE)

\* C27: a return statement has no value exactly when the token after
\* `return` is `}` or end of input; before a token that starts an
\* expression the expression is parsed as the value, and before any other
\* token parse fails with ParseError at that token.
C27_ReturnValueByNextToken ==
    [][ReturnStepOutcome /\ ReturnValuesInProgram']_vars

\* `return` and, on the next line, `x` were parsed to one return of x
C27_Witness ==
    /\ entry = "parse"
    /\ pc = "done"
    /\ source = JoinWords(<<"return", "\n", "x">>)
    /\ ast = Program(<<ReturnStatement(Identifier(NameX))>>)

BuiltinNames == {NamePrint, NameConsole}

\* C28 as stated: dead-code elimination leaves every let statement and
\* function declaration named print or console in the program, referenced
\* or not.
C28_BuiltinNamesAllStay ==
    Optimized(<<"DeadCodeEliminator">>) =>
        \A name \in BuiltinNames :
            DeclarationsNamed(ast, name) = DeclarationsNamed(input, name)

\* C28 (amended): dead-code elimination leaves every let statement and
\* function declaration named print or console at its place, referenced
\* or not, unless it stands inside a function declaration that is itself
\* removed.
C28_BuiltinNamesStay ==
    Optimized(<<"DeadCodeEliminator">>) =>
        RetainsAll(input.statements, ast.statements, BuiltinNames)

\* `let print = 1` and `fn console() { }`, referenced nowhere, are both
\* still there after dead-code elimination
C28_Witness ==
    /\ Optimized(<<"DeadCodeEliminator">>)
    /\ input = Program(<<LetStatement(NamePrint, One),
                         FnDeclaration(NameConsole, <<>>, Block(<<>>))>>)
    /\ ast = input
    /\ UsedNames(input) = {}

\* the i-th top-level statement is a declaration that some eliminated
\* top-level declaration refers to
ReferencedFromEliminated(i) ==
    /\ IsDeclaration(input.statements[i])
    /\ \E j \in DOMAIN input.statements \ {i} :
          /\ IsDeclaration(input.statements[j])
          /\ ~Declares(ast, input.statements[j])
          /\ input.statements[i].name \in UsedNames(input.statements[j])

\* a declaration of the returned Program has a name that nothing in the
\* returned Program marks used
LeavesDeadDeclaration ==
    ~(DeclaredNames(ast) \subseteq UsedNames(ast) \cup BuiltinNames)

\* C29: dead-code elimination is one round of collecting and eliminating:
\* a declaration that an eliminated declaration refers to is retained, and
\* the pass applied to its own result removes something more exactly when
\* the result still declares a name that nothing in it uses.
C29_OneRoundNotFixpoint ==
    Optimized(<<"DeadCodeEliminator">>) =>
        /\ \A i \in DOMAIN input.statements :
              ReferencedFromEliminated(i) =>
                  Declares(ast, input.statements[i])
        /\ (DeadCodeEliminatorOptimize(ast).result # ast)
              <=> LeavesDeadDeclaration

\* of `let x = 1` and `let y = x` the first round removed only the second;
\* a second round removes the first as well
C29_Witness ==
    /\ Optimized(<<"DeadCodeEliminator">>)
    /\ input = Program(<<LetStatement(NameX, One),
                         LetStatement(NameY, Identifier(NameX))>>)
    /\ ast = Program(<<LetStatement(NameX, One)>>)
    /\ DeadCodeEliminatorOptimize(ast).result = Program(<<>>)

\* the outcome r of _declaration called with the cursor at p: the cursor
\* is not behind p and not past the end-of-input token, and a statement
\* that was parsed took at least one token
ConsumesFrom(toks, r, p) ==
    /\ r.pos >= p
    /\ r.pos <= Len(toks) - 1
    /\ r.ok => r.pos > p

\* _declaration called wherever a statement of the program or of a block
\* can start, that is at every token but the end-of-input token
StatementsConsume(toks) ==
    \A p \in 0 .. Len(toks) - 2 :
        ConsumesFrom(toks, ParseDeclaration(toks, p), p)

\* the tokens handed to the parser end with their only end-of-input
\* token, and the loop has run at most as often as the cursor has moved
CursorInTokens ==
    /\ tokens # <<>>
    /\ \A i \in DOMAIN tokens : tokens[i].type = "EOF" <=> i = Len(tokens)
    /\ parserPos \in 0 .. Len(tokens) - 1
    /\ Len(parseStatements) <= parserPos
    /\ StatementsConsume(tokens)

\* a step of the loop of Parser.parse
CursorStep ==
    (entry = "parse" /\ pc = "parse") =>
        /\ CursorInTokens
        /\ parserPos' >= parserPos
        /\ parserPos' <= Len(tokens) - 1
        /\ pc' \in {"parse", "raised", "done"}
        /\ pc' = "parse" =>
              /\ parserPos' > parserPos
              /\ Len(parseStatements') = Len(parseStatements) + 1
        /\ pc' = "done" =>
              /\ PIsAtEnd(tokens, parserPos')
              /\ parserPos' = Len(tokens) - 1
              /\ ast' = Program(parseStatements)

\* C30: on the tokens of a source, which end with the end-of-input token,
\* Parser.parse terminates: every turn of its loop either raises or moves
\* the cursor forward, the cursor never goes back and never passes the
\* end-of-input token, every statement parsed at top level or inside a
\* block takes at least one token, and a parse that returns leaves the
\* cursor on the end-of-input token.
C30_ParseTerminates == [][CursorStep]_vars

\* a parse that returned a function whose block holds a statement, with
\* the cursor on the end-of-input token
C30_Witness ==
    /\ entry = "parse"
    /\ pc = "done"
    /\ parserPos = Len(tokens) - 1
    /\ \E i \in DOMAIN ast.statements :
          /\ ast.statements[i].kind = "FnDeclaration"
          /\ ast.statements[i].body.statements # <<>>

====
